---- MODULE Spec2Model ----
(***************************************************************************)
(* A model of the BSD BASIC interpreter (src/basic.c): the program loader, *)
(* the line store, the execution driver and the statement handlers, at the *)
(* level of the characters of the program text.                            *)
(*                                                                         *)
(* A text is a sequence of one-character strings.  A C pointer into the    *)
(* text of a stored line is a record [line |-> index of the line in        *)
(* program_lines (0-based, as current_line), off |-> 1-based offset]; the  *)
(* terminating NUL of a text is the offset Len(text) + 1.  Numbers are     *)
(* integers: the programs of the model use no fractions, so that the       *)
(* double arithmetic of the interpreter is exact on them.                  *)
(***************************************************************************)
EXTENDS Integers, Sequences, FiniteSets, TLC

(***************************************************************************)
(* Limits of the interpreter (src/basic.c:33-40).                          *)
(***************************************************************************)
MAX_LINES == 512
MAX_LINE_LEN == 128
MAX_VARS == 64
MAX_GOSUB == 32
MAX_FOR == 16
MAX_STR_LEN == 128
DEFAULT_ARRAY_SIZE == 11
PRINT_WIDTH == 80
NAMEBUF_SIZE == 8
MAX_LINE_NUMBER == 65535

VAL_NUM == 0
VAL_STR == 1

(***************************************************************************)
(* Bounds of the model.                                                    *)
(***************************************************************************)
\* the longest generated source file, in physical lines
MaxFileLines == 3
\* the number of statements a run may execute before the model stops it
MaxSteps == 40
\* the largest limit of the generated FOR loops
MaxLoop == 3
\* the largest magnitude of the operands of AND, OR and NOT
MaxOperand == 7
\* the longest string operand, in characters
MaxChars == 3
MaxLookup == 5

(***************************************************************************)
(* Characters (ctype.h).                                                   *)
(***************************************************************************)
NUL == "NUL"
Upper == << "A","B","C","D","E","F","G","H","I","J","K","L","M",
            "N","O","P","Q","R","S","T","U","V","W","X","Y","Z" >>
Lower == << "a","b","c","d","e","f","g","h","i","j","k","l","m",
            "n","o","p","q","r","s","t","u","v","w","x","y","z" >>
DigitChars == << "0","1","2","3","4","5","6","7","8","9" >>

Digits == {DigitChars[i] : i \in 1..10}
Letters == {Upper[i] : i \in 1..26} \cup {Lower[i] : i \in 1..26}
UpperOf == [c \in {Lower[i] : i \in 1..26} |->
               Upper[CHOOSE i \in 1..26 : Lower[i] = c]]
ValueOf == [c \in Digits |-> (CHOOSE i \in 1..10 : DigitChars[i] = c) - 1]

isdigit(c) == c \in Digits
isalpha(c) == c \in Letters
isspace(c) == c \in {" ", "\t", "\n", "\r", "\f"}
toupper(c) == IF c \in DOMAIN UpperOf THEN UpperOf[c] ELSE c
DigitVal(c) == ValueOf[c]

\* the character at offset off of text t; the NUL at and after its end
CharAt(t, off) == IF off >= 1 /\ off <= Len(t) THEN t[off] ELSE NUL

\* the text from offset off on (a char * into the middle of a buffer)
Suffix(t, off) == IF off > Len(t) THEN << >> ELSE SubSeq(t, off, Len(t))

\* the offset reached from off by skipping the characters of the set cs
RECURSIVE SkipWhile(_, _, _)
SkipWhile(t, off, cs) ==
    IF CharAt(t, off) \in cs THEN SkipWhile(t, off + 1, cs) ELSE off

\* the offset of the first character from off on that is not a digit
RECURSIVE SkipDigits(_, _)
SkipDigits(t, off) ==
    IF isdigit(CharAt(t, off)) THEN SkipDigits(t, off + 1) ELSE off

\* the value of the digits of t in [from, to)
RECURSIVE DigitsValue(_, _, _, _)
DigitsValue(t, from, to, acc) ==
    IF from >= to THEN acc
    ELSE DigitsValue(t, from + 1, to, acc * 10 + DigitVal(t[from]))

\* atoi(3): leading white space, an optional sign, then digits
atoi(t, off) ==
    LET s == SkipWhile(t, off, {" ", "\t", "\n", "\r", "\f"})
        neg == CharAt(t, s) = "-"
        d == IF CharAt(t, s) \in {"-", "+"} THEN s + 1 ELSE s
        v == DigitsValue(t, d, SkipDigits(t, d), 0)
    IN  IF neg THEN 0 - v ELSE v

\* the decimal digits of n >= 0
RECURSIVE NatDigits(_)
NatDigits(n) ==
    IF n < 10 THEN << DigitChars[n + 1] >>
    ELSE NatDigits(n \div 10) \o << DigitChars[(n % 10) + 1] >>

\* sprintf("%g") of an integral value of fewer than seven digits
FormatG(n) == IF n < 0 THEN << "-" >> \o NatDigits(0 - n) ELSE NatDigits(n)


\* the value of K at the value of e, with e evaluated once
Bind(e, K(_)) == CHOOSE y \in {K(x) : x \in {e}} : TRUE

(***************************************************************************)
(* The state of the machine.                                               *)
(***************************************************************************)
VARIABLES
    file,            \* the source file: its physical lines, without newline
    pc,              \* where main is: "load", "loaded", "run", "exit"
    file_pos,        \* the number of lines fgets has returned so far
    exit_code,       \* the exit status of the process, -1 while it runs
    program_lines,   \* the line store: records [number, text]
    current_line, statement_pos, halted, print_col,
    vars, gosub_stack, for_stack,
    last_lookup_num, last_lookup_idx,
    out,             \* the characters written to stdout
    err,             \* the diagnostics written to stderr
    comparison,      \* the comparison a run of eval_comparison is given,
                     \* with its result once it has returned
    expression,      \* the expression a run of eval_or_expr is given, with
                     \* its result once it has returned
    lookup,          \* the number a call of find_line_index is given, with
                     \* the index it has returned
    trace            \* history: the statements execute_statement was given

mvars == << file, pc, file_pos, exit_code, program_lines, current_line,
            statement_pos, halted, print_col, vars, gosub_stack, for_stack,
            last_lookup_num, last_lookup_idx, out, err, comparison,
            expression, lookup, trace >>

line_count == Len(program_lines)
var_count == Len(vars)
gosub_top == Len(gosub_stack)
for_top == Len(for_stack)

\* the NULL pointer, and a pointer to offset off of the text of line li
NULL == [line |-> -1, off |-> 0]
Ptr(li, off) == [line |-> li, off |-> off]

\* the text a stored line owns
Text(li) == program_lines[li + 1].text

(***************************************************************************)
(* The interpreter state the statement handlers and the evaluator work on, *)
(* as one record.  The handlers receive p = &statement_pos                 *)
(* (src/basic.c:1433), so that *p and statement_pos are one field.  moves   *)
(* says whether realloc moves the block it grows: either may happen, and a *)
(* pointer into the old block then dangles.                                *)
(***************************************************************************)
Machine(moves) ==
    [ moves |-> moves,
      statement_pos |-> statement_pos, current_line |-> current_line,
      halted |-> halted, print_col |-> print_col, vars |-> vars,
      gosub_stack |-> gosub_stack, for_stack |-> for_stack,
      last_lookup_num |-> last_lookup_num,
      last_lookup_idx |-> last_lookup_idx, out |-> out, err |-> err ]

\* **p, (*p)[k], *p += k
Peek(s) == CharAt(Text(s.statement_pos.line), s.statement_pos.off)
PeekAt(s, k) == CharAt(Text(s.statement_pos.line), s.statement_pos.off + k)
Adv(s, k) == [s EXCEPT !.statement_pos.off = @ + k]
\* strlen(*p)
RestLen(s) ==
    LET n == Len(Text(s.statement_pos.line)) + 1 - s.statement_pos.off
    IN  IF n < 0 THEN 0 ELSE n

\* runtime_error as it would be if it only wrote the diagnostic
runtime_error_reports(s, msg) ==
    [s EXCEPT !.err = Append(@,
                  [line |-> IF s.current_line >= 0 /\ s.current_line < line_count
                            THEN program_lines[s.current_line + 1].number
                            ELSE -1,
                   msg |-> msg])]

runtime_error(s, msg) ==
    [s EXCEPT !.err = Append(@,
                  [line |-> IF s.current_line >= 0 /\ s.current_line < line_count
                            THEN program_lines[s.current_line + 1].number
                            ELSE -1,
                   msg |-> msg]),
              !.halted = 1]

skip_spaces(s) ==
    [s EXCEPT !.statement_pos.off =
        SkipWhile(Text(s.statement_pos.line), @, {" ", "\t"})]

\* the value that a computation outside the integers would give: the model
\* has no such value, and TLC stops when a run needs one
Inexact == CHOOSE x \in {} : TRUE

parse_number_literal(s) ==
    Bind(Text(s.statement_pos.line), LAMBDA t :
    Bind(s.statement_pos.off, LAMBDA s0 :
    Bind(IF CharAt(t, s0) \in {"+", "-"} THEN s0 + 1 ELSE s0, LAMBDA q0 :
    IF ~isdigit(CharAt(t, q0)) THEN [ok |-> 0, out |-> 0, s |-> s]
    ELSE
    Bind(SkipDigits(t, q0), LAMBDA q1 :
    Bind(IF CharAt(t, q1) = "." THEN SkipDigits(t, q1 + 1) ELSE q1, LAMBDA q2 :
    Bind(IF CharAt(t, q2 + 1) \in {"+", "-"} THEN q2 + 2 ELSE q2 + 1, LAMBDA e0 :
    Bind(IF CharAt(t, q2) \in {"e", "E"} /\ isdigit(CharAt(t, e0))
         THEN SkipDigits(t, e0) ELSE q2, LAMBDA q3 :
    [ok |-> 1,
     out |-> IF q3 # q1 THEN Inexact
             ELSE IF CharAt(t, s0) = "-" THEN 0 - DigitsValue(t, q0, q1, 0)
             ELSE DigitsValue(t, q0, q1, 0),
     s |-> [s EXCEPT !.statement_pos.off = q3]])))))))

\* the keywords, as the character arrays starts_with_kw compares with
kwd ==
    "REM" :> << "R","E","M" >>
    @@ "PRINT" :> << "P","R","I","N","T" >>
    @@ "INPUT" :> << "I","N","P","U","T" >>
    @@ "LET" :> << "L","E","T" >>
    @@ "GOTO" :> << "G","O","T","O" >>
    @@ "GOSUB" :> << "G","O","S","U","B" >>
    @@ "RETURN" :> << "R","E","T","U","R","N" >>
    @@ "IF" :> << "I","F" >>
    @@ "THEN" :> << "T","H","E","N" >>
    @@ "FOR" :> << "F","O","R" >>
    @@ "TO" :> << "T","O" >>
    @@ "STEP" :> << "S","T","E","P" >>
    @@ "NEXT" :> << "N","E","X","T" >>
    @@ "DIM" :> << "D","I","M" >>
    @@ "END" :> << "E","N","D" >>
    @@ "STOP" :> << "S","T","O","P" >>

FunctionNames ==
    { << "S","I","N" >>, << "C","O","S" >>, << "T","A","N" >>,
      << "A","B","S" >>, << "I","N","T" >>, << "S","Q","R" >>,
      << "S","G","N" >>, << "E","X","P" >>, << "L","O","G" >>,
      << "R","N","D" >>, << "L","E","N" >>, << "V","A","L" >>,
      << "S","T","R" >>, << "C","H","R" >>, << "A","S","C" >>,
      << "T","A","B" >> }

starts_with_kw(s, kw) ==
    /\ \A i \in 1..Len(kw) : toupper(PeekAt(s, i - 1)) = kw[i]
    /\ PeekAt(s, Len(kw)) \in {NUL, " ", "\t", ":", "("}

make_num(v) == [type |-> VAL_NUM, num |-> v, str |-> << >>]

make_str(str) ==
    [type |-> VAL_STR, num |-> 0,
     str |-> IF Len(str) > MAX_STR_LEN - 1
             THEN SubSeq(str, 1, MAX_STR_LEN - 1) ELSE str]

ensure_num(s, v) ==
    IF v.type # VAL_NUM THEN runtime_error(s, "Numeric value required") ELSE s

ensure_str(s, v) ==
    IF v.type # VAL_STR THEN runtime_error(s, "String value required") ELSE s

(***************************************************************************)
(* The variable store.  A variable is a record [scalar, array, size,       *)
(* name1, name2, is_string, is_array, gen]; gen names the block the array  *)
(* lives in.  A struct value * is a record [var, elem, gen]: the scalar of *)
(* vars[var] when elem = -1, else element elem of the block gen.           *)
(***************************************************************************)
NULLREF == [var |-> 0, elem |-> -1, gen |-> 0]

\* the all-zero struct value that calloc and memset give
ZeroValue == [type |-> VAL_NUM, num |-> 0, str |-> << >>]

\* the characters an identifier is made of
IdentChars == Letters \cup Digits \cup {"$"}

read_identifier(s, buf_size) ==
    Bind(Text(s.statement_pos.line), LAMBDA t :
    Bind(s.statement_pos.off, LAMBDA o :
    Bind(CHOOSE k \in 0..(buf_size - 1) :
            /\ \A j \in 0..(k - 1) : CharAt(t, o + j) \in IdentChars
            /\ (k = buf_size - 1 \/ CharAt(t, o + k) \notin IdentChars),
         LAMBDA n :
    [buf |-> SubSeq(t, o, o + n - 1), s |-> Adv(s, n)])))

uppercase_name_numeric(src) ==
    Bind(IF Len(src) > 0 /\ src[Len(src)] = "$" THEN 1 ELSE 0, LAMBDA str :
    Bind(Len(src) - str, LAMBDA len :
    [n1 |-> IF len > 0 THEN toupper(src[1]) ELSE " ",
     n2 |-> IF len > 1 THEN toupper(src[2]) ELSE " ",
     is_string |-> 0]))

uppercase_name(src) ==
    Bind(IF Len(src) > 0 /\ src[Len(src)] = "$" THEN 1 ELSE 0, LAMBDA str :
    Bind(Len(src) - str, LAMBDA len :
    [n1 |-> IF len > 0 THEN toupper(src[1]) ELSE " ",
     n2 |-> IF len > 1 THEN toupper(src[2]) ELSE " ",
     is_string |-> str]))

GrowArrayStale(s, v, n) ==
    [v EXCEPT !.array = @ \o [k \in 1..(n - v.size) |-> v.array[1]],
              !.size = n,
              !.gen = IF s.moves THEN @ + 1 ELSE @]

\* realloc(v->array, n) followed by memset of the new tail
GrowArray(s, v, n) ==
    [v EXCEPT !.array = @ \o [k \in 1..(n - v.size) |-> ZeroValue],
              !.size = n,
              !.gen = IF s.moves THEN @ + 1 ELSE @]

\* the variable find_or_create_var makes when it finds none
NewVar(name1, name2, is_string, want_array, array_size) ==
    [name1 |-> name1, name2 |-> name2,
     is_string |-> is_string, is_array |-> want_array,
     size |-> IF want_array = 1 THEN array_size ELSE 0,
     array |-> IF want_array = 1 THEN [k \in 1..array_size |-> ZeroValue]
               ELSE << >>,
     gen |-> 0,
     scalar |-> IF is_string = 1 THEN make_str(<< >>) ELSE make_num(0)]

find_or_create_var_resizes(s, name1, name2, is_string, want_array, array_size) ==
    Bind({i \in 1..Len(s.vars) :
             /\ s.vars[i].name1 = name1
             /\ s.vars[i].name2 = name2
             /\ s.vars[i].is_string = is_string}, LAMBDA hit :
    IF hit # {}
    THEN Bind(CHOOSE k \in hit : \A j \in hit : k <= j, LAMBDA i :
         Bind(s.vars[i], LAMBDA v :
         [v |-> i,
          s |-> [s EXCEPT !.vars[i] =
                    IF want_array = 1 /\ v.is_array = 0
                    THEN [v EXCEPT !.is_array = 1, !.size = array_size,
                                   !.array = [k \in 1..array_size |-> ZeroValue]]
                    ELSE IF want_array = 1 /\ array_size > v.size
                    THEN GrowArray(s, v, array_size)
                    ELSE IF want_array = 1 /\ array_size < v.size
                    THEN [v EXCEPT !.size = array_size,
                                   !.array = SubSeq(@, 1, array_size)]
                    ELSE v]]))
    ELSE IF Len(s.vars) >= MAX_VARS
    THEN [v |-> 0, s |-> runtime_error(s, "Variable table full")]
    ELSE [v |-> Len(s.vars) + 1,
          s |-> [s EXCEPT !.vars = Append(@,
                    NewVar(name1, name2, is_string, want_array, array_size))]])

find_or_create_var(s, name1, name2, is_string, want_array, array_size) ==
    Bind({i \in 1..Len(s.vars) :
             /\ s.vars[i].name1 = name1
             /\ s.vars[i].name2 = name2
             /\ s.vars[i].is_string = is_string}, LAMBDA hit :
    IF hit # {}
    THEN Bind(CHOOSE k \in hit : \A j \in hit : k <= j, LAMBDA i :
         Bind(s.vars[i], LAMBDA v :
         [v |-> i,
          s |-> [s EXCEPT !.vars[i] =
                    IF want_array = 1 /\ v.is_array = 0
                    THEN [v EXCEPT !.is_array = 1, !.size = array_size,
                                   !.array = [k \in 1..array_size |-> ZeroValue]]
                    ELSE IF want_array = 1 /\ array_size > v.size
                    THEN GrowArray(s, v, array_size)
                    ELSE v]]))
    ELSE IF Len(s.vars) >= MAX_VARS
    THEN [v |-> 0, s |-> runtime_error(s, "Variable table full")]
    ELSE [v |-> Len(s.vars) + 1,
          s |-> [s EXCEPT !.vars = Append(@,
                    NewVar(name1, name2, is_string, want_array, array_size))]])

\* *vp, for a vp that points at live storage
Load(s, vp) ==
    IF vp.elem < 0 THEN s.vars[vp.var].scalar
    ELSE s.vars[vp.var].array[vp.elem + 1]

\* *vp = v; a store through a pointer into a block that realloc has moved
\* does not reach the array
Store(s, vp, v) ==
    IF vp.elem < 0 THEN [s EXCEPT !.vars[vp.var].scalar = v]
    ELSE IF s.vars[vp.var].gen # vp.gen THEN s
    ELSE [s EXCEPT !.vars[vp.var].array[vp.elem + 1] = v]

(***************************************************************************)
(* The expression evaluator.  Every function of it takes the machine and   *)
(* gives back the machine it leaves (the cursor advanced, variables        *)
(* created, diagnostics written) with its result.                          *)
(***************************************************************************)
name_equals(a, b) == [i \in 1..Len(a) |-> toupper(a[i])] = b

\* x / y and pow(x, y), where the result is integral
Quotient(x, y) == IF y # 0 /\ x % y = 0 THEN x \div y ELSE Inexact
RECURSIVE Power(_, _)
Power(x, y) == IF y < 0 THEN Inexact ELSE IF y = 0 THEN 1 ELSE x * Power(x, y - 1)

Spaces(n) == [k \in 1..n |-> " "]

RECURSIVE eval_expr(_)
RECURSIVE eval_term(_)
RECURSIVE eval_power(_)
RECURSIVE eval_factor(_)
RECURSIVE eval_function(_, _)
RECURSIVE get_var_reference(_)

\* (int)(idx_val.num + 0.00001), for a double with an integer value: the
\* cast drops the fraction of the sum, towards zero, which for a negative
\* num leaves num + 1
int_of_subscript(num) == IF num < 0 THEN num + 1 ELSE num

\* get_var_reference from its call of find_or_create_var on, for the name nm
var_slot(s, nm, is_array, array_index) ==
    Bind(find_or_create_var(s, nm.n1, nm.n2, nm.is_string, is_array,
            IF is_array = 0 THEN 0
            ELSE IF array_index + 1 < DEFAULT_ARRAY_SIZE THEN DEFAULT_ARRAY_SIZE
            ELSE array_index + 1), LAMBDA fv :
    IF fv.v = 0
    THEN [vp |-> NULLREF, is_array |-> is_array, is_string |-> nm.is_string,
          s |-> fv.s]
    ELSE
    Bind(IF is_array = 1 /\ array_index >= fv.s.vars[fv.v].size
         THEN [fv.s EXCEPT !.vars[fv.v] = GrowArray(fv.s, @, array_index + 1)]
         ELSE fv.s, LAMBDA s5 :
    Bind([var |-> fv.v, elem |-> IF is_array = 1 THEN array_index ELSE -1,
          gen |-> s5.vars[fv.v].gen], LAMBDA vp :
    Bind(Load(s5, vp), LAMBDA cur :
    [vp |-> vp, is_array |-> is_array, is_string |-> nm.is_string,
     s |-> IF nm.is_string = 1 /\ cur.type # VAL_STR
           THEN Store(s5, vp, make_str(<< >>))
           ELSE IF nm.is_string = 0 /\ cur.type # VAL_NUM
           THEN Store(s5, vp, make_num(0))
           ELSE s5]))))

\* the result of get_var_reference where it returns NULL
no_slot(s, is_string) ==
    [vp |-> NULLREF, is_array |-> 0, is_string |-> is_string, s |-> s]

get_var_reference(s) ==
    Bind(skip_spaces(s), LAMBDA s1 :
    IF ~isalpha(Peek(s1))
    THEN no_slot(runtime_error(s1, "Expected variable"), 0)
    ELSE
    Bind(read_identifier(s1, NAMEBUF_SIZE), LAMBDA id :
    Bind(uppercase_name(id.buf), LAMBDA nm :
    Bind(skip_spaces(id.s), LAMBDA s2 :
    IF Peek(s2) # "(" THEN var_slot(s2, nm, 0, -1)
    ELSE
    Bind(eval_expr(Adv(s2, 1)), LAMBDA ix :
    Bind(skip_spaces(ensure_num(ix.s, ix.v)), LAMBDA s3 :
    IF Peek(s3) # ")"
    THEN no_slot(runtime_error(s3, "Missing ')'"), nm.is_string)
    ELSE IF int_of_subscript(ix.v.num) < 0
    THEN no_slot(runtime_error(Adv(s3, 1), "Negative array index"),
                 nm.is_string)
    ELSE var_slot(Adv(s3, 1), nm, 1, int_of_subscript(ix.v.num))))))))

\* eval_function after the closing parenthesis, for the argument arg
apply_function(name, arg, s) ==
    IF name_equals(name, << "A","B","S" >>)
    THEN [v |-> make_num(IF arg.num < 0 THEN 0 - arg.num ELSE arg.num),
          s |-> ensure_num(s, arg)]
    ELSE IF name_equals(name, << "I","N","T" >>)
    THEN [v |-> make_num(arg.num), s |-> ensure_num(s, arg)]
    ELSE IF name_equals(name, << "S","G","N" >>)
    THEN [v |-> make_num(IF arg.num > 0 THEN 1
                         ELSE IF arg.num < 0 THEN -1 ELSE 0),
          s |-> ensure_num(s, arg)]
    ELSE IF name_equals(name, << "L","E","N" >>)
    THEN [v |-> make_num(Len(arg.str)), s |-> ensure_str(s, arg)]
    ELSE IF name_equals(name, << "T","A","B" >>)
    THEN Bind(ensure_num(s, arg), LAMBDA s4 :
         Bind(arg.num % PRINT_WIDTH, LAMBDA target :
         [v |-> make_str(<< >>),
          s |-> [s4 EXCEPT
                   !.out = IF target < s4.print_col
                           THEN @ \o << "\n" >> \o Spaces(target)
                           ELSE @ \o Spaces(target - s4.print_col),
                   !.print_col = target]]))
    ELSE IF \E f \in FunctionNames : name_equals(name, f)
    THEN [v |-> Inexact, s |-> s]
    ELSE [v |-> make_num(0), s |-> runtime_error(s, "Unknown function")]

eval_function(name, s) ==
    Bind(skip_spaces(read_identifier(s, NAMEBUF_SIZE).s), LAMBDA s1 :
    IF Peek(s1) # "("
    THEN [v |-> make_num(0), s |-> runtime_error(s1, "Function requires '('")]
    ELSE
    Bind(eval_expr(Adv(s1, 1)), LAMBDA a :
    Bind(skip_spaces(a.s), LAMBDA s2 :
    Bind(IF Peek(s2) = ")" THEN Adv(s2, 1)
         ELSE runtime_error(s2, "Missing ')'"), LAMBDA s3 :
    apply_function(name, a.v, s3)))))

\* the string literal of eval_factor, with the cursor s at its opening quote
string_literal(s) ==
    Bind(Text(s.statement_pos.line), LAMBDA t :
    Bind(s.statement_pos.off + 1, LAMBDA from :
    Bind(CHOOSE k \in 0..(MAX_STR_LEN - 1) :
            /\ \A j \in 0..(k - 1) : CharAt(t, from + j) \notin {NUL, "\""}
            /\ (k = MAX_STR_LEN - 1 \/ CharAt(t, from + k) \in {NUL, "\""}),
         LAMBDA n :
    Bind(Adv(s, n + 1), LAMBDA q :
    [v |-> make_str(SubSeq(t, from, from + n - 1)),
     s |-> IF Peek(q) = "\"" THEN Adv(q, 1)
           ELSE runtime_error(q, "Unterminated string")]))))

eval_factor(s) ==
    Bind(skip_spaces(s), LAMBDA s1 :
    Bind(Peek(s1), LAMBDA c :
    IF c = "("
    THEN Bind(eval_expr(Adv(s1, 1)), LAMBDA e :
         Bind(skip_spaces(e.s), LAMBDA e1 :
         [v |-> e.v,
          s |-> IF Peek(e1) = ")" THEN Adv(e1, 1)
                ELSE runtime_error(e1, "Missing ')'")]))
    ELSE IF c = "\"" THEN string_literal(s1)
    ELSE IF isalpha(c)
    THEN IF \E f \in FunctionNames : starts_with_kw(s1, f)
         THEN Bind(read_identifier(s1, NAMEBUF_SIZE).buf, LAMBDA namebuf :
              eval_function(namebuf, s1))
         ELSE Bind(get_var_reference(s1), LAMBDA vr :
              [v |-> IF vr.vp # NULLREF THEN Load(vr.s, vr.vp)
                     ELSE make_num(0),
               s |-> vr.s])
    ELSE IF c \in {"+", "-"}
    THEN Bind(eval_factor(Adv(s1, 1)), LAMBDA inner :
         [v |-> IF c = "-" THEN [inner.v EXCEPT !.num = 0 - @] ELSE inner.v,
          s |-> ensure_num(inner.s, inner.v)])
    ELSE Bind(parse_number_literal(s1), LAMBDA lit :
         IF lit.ok = 1 THEN [v |-> make_num(lit.out), s |-> lit.s]
         ELSE [v |-> make_num(0),
               s |-> runtime_error(s1, "Syntax error in expression")])))

eval_power(s) ==
    Bind(eval_factor(skip_spaces(s)), LAMBDA left :
    Bind(skip_spaces(left.s), LAMBDA s1 :
    IF Peek(s1) # "^" THEN [v |-> left.v, s |-> s1]
    ELSE
    Bind(eval_power(Adv(s1, 1)), LAMBDA right :
    [v |-> [left.v EXCEPT !.num = Power(@, right.v.num)],
     s |-> ensure_num(ensure_num(right.s, left.v), right.v)])))

\* the loop of eval_term, entered with the value left
RECURSIVE eval_term_loop(_, _)
eval_term_loop(left, s) ==
    Bind(skip_spaces(s), LAMBDA s1 :
    Bind(Peek(s1), LAMBDA op :
    IF op \notin {"*", "/"} THEN [v |-> left, s |-> s1]
    ELSE
    Bind(eval_power(Adv(s1, 1)), LAMBDA right :
    eval_term_loop(
        [left EXCEPT !.num = IF op = "*" THEN @ * right.v.num
                             ELSE Quotient(@, right.v.num)],
        ensure_num(ensure_num(right.s, left), right.v)))))

eval_term(s) ==
    Bind(eval_power(skip_spaces(s)), LAMBDA left :
    eval_term_loop(left.v, left.s))

strcat(dst, src, n) == dst \o src

\* strncat(left.str, right.str, MAX_STR_LEN - strlen(left.str) - 1)
strncat(dst, src, n) ==
    dst \o (IF Len(src) > n THEN SubSeq(src, 1, n) ELSE src)

\* the loop of eval_expr, entered with the value left
RECURSIVE eval_expr_loop(_, _)
eval_expr_loop(left, s) ==
    Bind(skip_spaces(s), LAMBDA s1 :
    Bind(Peek(s1), LAMBDA op :
    IF op \notin {"+", "-"} THEN [v |-> left, s |-> s1]
    ELSE
    Bind(eval_term(Adv(s1, 1)), LAMBDA right :
    IF op = "+" /\ (left.type = VAL_STR \/ right.v.type = VAL_STR)
    THEN eval_expr_loop(
            [left EXCEPT !.str = strncat(@, right.v.str,
                                         MAX_STR_LEN - Len(@) - 1)],
            ensure_str(ensure_str(right.s, left), right.v))
    ELSE IF op = "+"
    THEN eval_expr_loop([left EXCEPT !.num = @ + right.v.num], right.s)
    ELSE eval_expr_loop([left EXCEPT !.num = @ - right.v.num],
                        ensure_num(ensure_num(right.s, left), right.v)))))

eval_expr(s) ==
    Bind(eval_term(skip_spaces(s)), LAMBDA left :
    eval_expr_loop(left.v, left.s))

(***************************************************************************)
(* Output.                                                                 *)
(***************************************************************************)
RECURSIVE print_spaces(_, _)
print_spaces(s, count) ==
    IF count <= 0 THEN s
    ELSE LET col == s.print_col + 1
         IN  print_spaces(
                IF col >= PRINT_WIDTH
                THEN [s EXCEPT !.out = @ \o << " ", "\n" >>, !.print_col = 0]
                ELSE [s EXCEPT !.out = Append(@, " "), !.print_col = col],
                count - 1)

\* the loop of print_value over the characters of a string, from the k-th
RECURSIVE print_chars(_, _, _)
print_chars(s, str, k) ==
    IF k > Len(str) THEN s
    ELSE LET col == s.print_col + 1
         IN  print_chars(
                IF str[k] = "\n"
                THEN [s EXCEPT !.out = Append(@, str[k]), !.print_col = 0]
                ELSE IF col >= PRINT_WIDTH
                THEN [s EXCEPT !.out = @ \o << str[k], "\n" >>, !.print_col = 0]
                ELSE [s EXCEPT !.out = Append(@, str[k]), !.print_col = col],
                str, k + 1)

\* print_value as it would be with the leading space CBM BASIC gives a
\* number that is not negative
print_value_cbm(s, v) ==
    IF v.type = VAL_STR THEN print_chars(s, v.str, 1)
    ELSE IF v.num >= 0
    THEN [s EXCEPT !.out = @ \o << " " >> \o FormatG(v.num),
                   !.print_col = @ + 1 + Len(FormatG(v.num))]
    ELSE [s EXCEPT !.out = @ \o FormatG(v.num),
                   !.print_col = @ + Len(FormatG(v.num))]

print_value(s, v) ==
    IF v.type = VAL_STR THEN print_chars(s, v.str, 1)
    ELSE [s EXCEPT !.out = @ \o FormatG(v.num),
                   !.print_col = @ + Len(FormatG(v.num))]

\* the printable characters in the order of their codes, 32 to 126 (the
\* grave accent, code 96, under a name)
Ascii ==
    << " ","!","\"","#","$","%","&","'","(",")","*","+",",","-",".","/",
       "0","1","2","3","4","5","6","7","8","9",":",";","<","=",">","?",
       "@","A","B","C","D","E","F","G","H","I","J","K","L","M","N","O",
       "P","Q","R","S","T","U","V","W","X","Y","Z","[","\\","]","^","_",
       "GRAVE","a","b","c","d","e","f","g","h","i","j","k","l","m","n","o",
       "p","q","r","s","t","u","v","w","x","y","z","{","|","}","~" >>
CodeOf == [c \in {Ascii[i] : i \in 1..Len(Ascii)} |->
              31 + (CHOOSE i \in 1..Len(Ascii) : Ascii[i] = c)]
CharCode(c) == CodeOf[c]

\* strcmp(3), on printable characters: negative, zero or positive
RECURSIVE strcmp(_, _)
strcmp(a, b) ==
    IF a = << >> /\ b = << >> THEN 0
    ELSE IF a = << >> THEN -1
    ELSE IF b = << >> THEN 1
    ELSE IF Head(a) # Head(b) THEN CharCode(Head(a)) - CharCode(Head(b))
    ELSE strcmp(Tail(a), Tail(b))

(***************************************************************************)
(* The line index.                                                         *)
(***************************************************************************)
\* the binary search of find_line_index over [low, high] (0-based)
RECURSIVE BinarySearch(_, _, _)
BinarySearch(number, low, high) ==
    IF low > high THEN -1
    ELSE LET mid == (low + high) \div 2
         IN  IF program_lines[mid + 1].number = number THEN mid
             ELSE IF program_lines[mid + 1].number < number
             THEN BinarySearch(number, mid + 1, high)
             ELSE BinarySearch(number, low, mid - 1)

\* find_line_index as it would be if a hit renewed the number of the cache
\* and left its index as it was
find_line_index_stale(s, number) ==
    IF number = s.last_lookup_num
    THEN [idx |-> s.last_lookup_idx, s |-> s]
    ELSE LET mid == BinarySearch(number, 0, line_count - 1)
         IN  [idx |-> mid,
              s |-> IF mid >= 0
                    THEN [s EXCEPT !.last_lookup_num = number]
                    ELSE s]

find_line_index(s, number) ==
    IF number = s.last_lookup_num
    THEN [idx |-> s.last_lookup_idx, s |-> s]
    ELSE LET mid == BinarySearch(number, 0, line_count - 1)
         IN  [idx |-> mid,
              s |-> IF mid >= 0
                    THEN [s EXCEPT !.last_lookup_num = number,
                                   !.last_lookup_idx = mid]
                    ELSE s]


(***************************************************************************)
(* The statements.  Each takes the machine with the cursor after the       *)
(* keyword and gives the machine the handler leaves.                       *)
(***************************************************************************)
\* the int of a C comparison
Truth(b) == IF b THEN 1 ELSE 0

\* the comparison of eval_condition for the operator op, after both sides
compare(op, left, right, s) ==
    IF op \in {<< "<", "=" >>, << ">", "=" >>}
    THEN [v |-> Truth(IF op[1] = "<" THEN left.num <= right.num
                      ELSE left.num >= right.num),
          s |-> ensure_num(ensure_num(s, left), right)]
    ELSE IF left.type = VAL_STR \/ right.type = VAL_STR
    THEN Bind(strcmp(left.str, right.str), LAMBDA result :
         [v |-> Truth(IF op = << "<", ">" >> THEN result # 0
                      ELSE IF op = << "<" >> THEN result < 0
                      ELSE IF op = << ">" >> THEN result > 0
                      ELSE result = 0),
          s |-> ensure_str(ensure_str(s, left), right)])
    ELSE [v |-> Truth(IF op = << "<", ">" >> THEN left.num # right.num
                      ELSE IF op = << "<" >> THEN left.num < right.num
                      ELSE IF op = << ">" >> THEN left.num > right.num
                      ELSE left.num = right.num),
          s |-> s]

eval_condition(s) ==
    Bind(eval_expr(skip_spaces(s)), LAMBDA l :
    Bind(skip_spaces(l.s), LAMBDA s1 :
    Bind(Peek(s1), LAMBDA op1 :
    Bind(PeekAt(s1, 1), LAMBDA op2 :
    IF op1 \notin {"<", ">", "="}
    THEN [v |-> Truth(IF l.v.type = VAL_STR THEN Len(l.v.str) > 0
                      ELSE l.v.num # 0),
          s |-> s1]
    ELSE
    Bind(IF (op1 = "<" /\ op2 \in {">", "="}) \/ (op1 = ">" /\ op2 = "=")
         THEN << op1, op2 >> ELSE << op1 >>, LAMBDA op :
    Bind(eval_expr(Adv(s1, Len(op))), LAMBDA r :
    compare(op, l.v, r.v, r.s)))))))

statement_rem(s) == Adv(s, RestLen(s))

\* the end of statement_print, with the flag newline
print_end(s, newline) ==
    IF newline = 1 THEN [s EXCEPT !.out = Append(@, "\n"), !.print_col = 0]
    ELSE s

\* the loop of statement_print, entered with the flag newline
RECURSIVE print_loop(_, _)
print_loop(s, newline) ==
    Bind(skip_spaces(s), LAMBDA s1 :
    IF Peek(s1) \in {NUL, ":"} THEN print_end(s1, newline)
    ELSE
    Bind(eval_expr(s1), LAMBDA e :
    Bind(skip_spaces(print_value(e.s, e.v)), LAMBDA s2 :
    IF Peek(s2) = ";" THEN print_loop(Adv(s2, 1), 0)
    ELSE IF Peek(s2) = ","
    THEN print_loop(
            Adv(print_spaces(s2,
                    ((s2.print_col \div 10) + 1) * 10 - s2.print_col), 1), 0)
    ELSE print_end(s2, 1))))

statement_print(s) == print_loop(s, 1)

statement_let(s) ==
    Bind(get_var_reference(s), LAMBDA r :
    IF r.vp = NULLREF THEN r.s
    ELSE
    Bind(skip_spaces(r.s), LAMBDA s1 :
    IF Peek(s1) # "=" THEN runtime_error(s1, "Expected '='")
    ELSE
    Bind(eval_expr(Adv(s1, 1)), LAMBDA rhs :
    Store(IF r.is_string = 1 THEN ensure_str(rhs.s, rhs.v)
          ELSE ensure_num(rhs.s, rhs.v),
          r.vp, rhs.v))))

\* statement_goto as it would be if it left the cursor as it is
statement_goto_keeps_cursor(s) ==
    Bind(skip_spaces(s), LAMBDA s1 :
    Bind(atoi(Text(s1.statement_pos.line), s1.statement_pos.off),
         LAMBDA line_number :
    Bind(find_line_index(
            [s1 EXCEPT !.statement_pos.off =
                SkipDigits(Text(s1.statement_pos.line), @)],
            line_number), LAMBDA f :
    IF f.idx < 0
    THEN runtime_error([f.s EXCEPT !.current_line = f.idx],
                       "Target line not found")
    ELSE [f.s EXCEPT !.current_line = f.idx])))

statement_goto(s) ==
    Bind(skip_spaces(s), LAMBDA s1 :
    Bind(atoi(Text(s1.statement_pos.line), s1.statement_pos.off),
         LAMBDA line_number :
    Bind(find_line_index(
            [s1 EXCEPT !.statement_pos.off =
                SkipDigits(Text(s1.statement_pos.line), @)],
            line_number), LAMBDA f :
    IF f.idx < 0
    THEN runtime_error([f.s EXCEPT !.current_line = f.idx],
                       "Target line not found")
    ELSE [f.s EXCEPT !.current_line = f.idx, !.statement_pos = NULL])))

\* statement_gosub as it would be if the stack took one frame more than
\* MAX_GOSUB
statement_gosub_one_more(s) ==
    IF Len(s.gosub_stack) > MAX_GOSUB
    THEN runtime_error(s, "GOSUB stack overflow")
    ELSE
    Bind(skip_spaces(s), LAMBDA s1 :
    Bind(atoi(Text(s1.statement_pos.line), s1.statement_pos.off),
         LAMBDA target :
    Bind([s1 EXCEPT !.statement_pos.off =
             SkipDigits(Text(s1.statement_pos.line), @)], LAMBDA s2 :
    Bind(find_line_index(
            [s2 EXCEPT !.gosub_stack =
                Append(@, [line_index |-> s2.current_line,
                           position |-> s2.statement_pos])],
            target), LAMBDA f :
    IF f.idx < 0
    THEN runtime_error([f.s EXCEPT !.current_line = f.idx],
                       "Target line not found")
    ELSE [f.s EXCEPT !.current_line = f.idx, !.statement_pos = NULL]))))

statement_gosub(s) ==
    IF Len(s.gosub_stack) >= MAX_GOSUB
    THEN runtime_error(s, "GOSUB stack overflow")
    ELSE
    Bind(skip_spaces(s), LAMBDA s1 :
    Bind(atoi(Text(s1.statement_pos.line), s1.statement_pos.off),
         LAMBDA target :
    Bind([s1 EXCEPT !.statement_pos.off =
             SkipDigits(Text(s1.statement_pos.line), @)], LAMBDA s2 :
    Bind(find_line_index(
            [s2 EXCEPT !.gosub_stack =
                Append(@, [line_index |-> s2.current_line,
                           position |-> s2.statement_pos])],
            target), LAMBDA f :
    IF f.idx < 0
    THEN runtime_error([f.s EXCEPT !.current_line = f.idx],
                       "Target line not found")
    ELSE [f.s EXCEPT !.current_line = f.idx, !.statement_pos = NULL]))))

\* statement_return as it would be if it took the frames of the loops off
\* the FOR stack
statement_return_unwinds(s) ==
    IF Len(s.gosub_stack) <= 0
    THEN runtime_error(s, "RETURN without GOSUB")
    ELSE [s EXCEPT
            !.gosub_stack = SubSeq(@, 1, Len(@) - 1),
            !.for_stack = << >>,
            !.current_line = s.gosub_stack[Len(s.gosub_stack)].line_index,
            !.statement_pos = s.gosub_stack[Len(s.gosub_stack)].position]

\* statement_return as it would be if it took the oldest frame of the stack
statement_return_oldest(s) ==
    IF Len(s.gosub_stack) <= 0
    THEN runtime_error(s, "RETURN without GOSUB")
    ELSE [s EXCEPT !.gosub_stack = SubSeq(@, 1, Len(@) - 1),
                   !.current_line = s.gosub_stack[1].line_index,
                   !.statement_pos = s.gosub_stack[1].position]

statement_return(s) ==
    IF Len(s.gosub_stack) <= 0
    THEN runtime_error(s, "RETURN without GOSUB")
    ELSE [s EXCEPT !.gosub_stack = SubSeq(@, 1, Len(@) - 1),
                   !.current_line = s.gosub_stack[Len(s.gosub_stack)].line_index,
                   !.statement_pos = s.gosub_stack[Len(s.gosub_stack)].position]

\* statement_if after eval_condition as it would be if it did not look at
\* cond_true
if_then_always(s, cond_true) ==
    Bind(skip_spaces(s), LAMBDA s1 :
    IF ~starts_with_kw(s1, kwd["THEN"]) THEN runtime_error(s1, "Missing THEN")
    ELSE
    Bind(skip_spaces(Adv(s1, 4)), LAMBDA s2 :
    IF ~isdigit(Peek(s2)) THEN skip_spaces(s2)
    ELSE
    Bind(atoi(Text(s2.statement_pos.line), s2.statement_pos.off),
         LAMBDA target :
    Bind(find_line_index(
            [s2 EXCEPT !.statement_pos.off =
                SkipDigits(Text(s2.statement_pos.line), @)],
            target), LAMBDA f :
    IF f.idx < 0
    THEN runtime_error([f.s EXCEPT !.current_line = f.idx],
                       "Target line not found")
    ELSE [f.s EXCEPT !.current_line = f.idx, !.statement_pos = NULL]))))

\* statement_if after eval_condition as it would be if a line number behind
\* THEN left the cursor as it is
if_then_keeps_cursor(s, cond_true) ==
    Bind(skip_spaces(s), LAMBDA s1 :
    IF ~starts_with_kw(s1, kwd["THEN"]) THEN runtime_error(s1, "Missing THEN")
    ELSE
    Bind(skip_spaces(Adv(s1, 4)), LAMBDA s2 :
    IF cond_true = 0 THEN Adv(s2, RestLen(s2))
    ELSE IF ~isdigit(Peek(s2)) THEN skip_spaces(s2)
    ELSE
    Bind(atoi(Text(s2.statement_pos.line), s2.statement_pos.off),
         LAMBDA target :
    Bind(find_line_index(
            [s2 EXCEPT !.statement_pos.off =
                SkipDigits(Text(s2.statement_pos.line), @)],
            target), LAMBDA f :
    IF f.idx < 0
    THEN runtime_error([f.s EXCEPT !.current_line = f.idx],
                       "Target line not found")
    ELSE [f.s EXCEPT !.current_line = f.idx]))))

\* statement_if after eval_condition as it would be if a statement behind
\* THEN were skipped like the rest of the line
if_then_skips(s, cond_true) ==
    Bind(skip_spaces(s), LAMBDA s1 :
    IF ~starts_with_kw(s1, kwd["THEN"]) THEN runtime_error(s1, "Missing THEN")
    ELSE
    Bind(skip_spaces(Adv(s1, 4)), LAMBDA s2 :
    IF cond_true = 0 THEN Adv(s2, RestLen(s2))
    ELSE IF ~isdigit(Peek(s2)) THEN Adv(s2, RestLen(s2))
    ELSE
    Bind(atoi(Text(s2.statement_pos.line), s2.statement_pos.off),
         LAMBDA target :
    Bind(find_line_index(
            [s2 EXCEPT !.statement_pos.off =
                SkipDigits(Text(s2.statement_pos.line), @)],
            target), LAMBDA f :
    IF f.idx < 0
    THEN runtime_error([f.s EXCEPT !.current_line = f.idx],
                       "Target line not found")
    ELSE [f.s EXCEPT !.current_line = f.idx, !.statement_pos = NULL]))))

\* statement_if after eval_condition has given cond_true
if_then(s, cond_true) ==
    Bind(skip_spaces(s), LAMBDA s1 :
    IF ~starts_with_kw(s1, kwd["THEN"]) THEN runtime_error(s1, "Missing THEN")
    ELSE
    Bind(skip_spaces(Adv(s1, 4)), LAMBDA s2 :
    IF cond_true = 0 THEN Adv(s2, RestLen(s2))
    ELSE IF ~isdigit(Peek(s2)) THEN skip_spaces(s2)
    ELSE
    Bind(atoi(Text(s2.statement_pos.line), s2.statement_pos.off),
         LAMBDA target :
    Bind(find_line_index(
            [s2 EXCEPT !.statement_pos.off =
                SkipDigits(Text(s2.statement_pos.line), @)],
            target), LAMBDA f :
    IF f.idx < 0
    THEN runtime_error([f.s EXCEPT !.current_line = f.idx],
                       "Target line not found")
    ELSE [f.s EXCEPT !.current_line = f.idx, !.statement_pos = NULL]))))

statement_if(s) ==
    Bind(eval_condition(s), LAMBDA c :
    if_then(c.s, c.v))

\* slot_name as it would be if the search of the variable table found
\* nothing
slot_name_blank(s, vp) == [name1 |-> " ", name2 |-> " "]

\* the names statement_for finds for the slot vp in the variable table
slot_name(s, vp) ==
    Bind({i \in 1..Len(s.vars) :
             \/ (vp.elem < 0 /\ i = vp.var)
             \/ (vp.elem >= 0 /\ i = vp.var /\ s.vars[i].is_array = 1
                 /\ s.vars[i].gen = vp.gen)}, LAMBDA named :
    IF named = {} THEN [name1 |-> " ", name2 |-> " "]
    ELSE [name1 |-> s.vars[CHOOSE i \in named : TRUE].name1,
          name2 |-> s.vars[CHOOSE i \in named : TRUE].name2])

\* push_for as it would be if a FOR took the frames of its variable, and
\* those above them, off the stack before it pushed, as CBM BASIC does
push_for_replaces(s, r, startv, endv, stepv) ==
    Bind(Store(s, r.vp, startv), LAMBDA s5 :
    Bind(slot_name(s5, r.vp), LAMBDA nm :
    Bind({i \in 1..Len(s5.for_stack) : s5.for_stack[i].var = r.vp},
         LAMBDA same :
    [s5 EXCEPT !.for_stack =
        Append(IF same = {} THEN @
               ELSE SubSeq(@, 1, (CHOOSE i \in same : \A j \in same : i <= j) - 1),
               [var |-> r.vp,
                end_value |-> endv.num,
                step |-> stepv.num,
                resume_pos |-> s5.statement_pos,
                line_index |-> s5.current_line,
                name1 |-> nm.name1,
                name2 |-> nm.name2,
                is_string |-> r.is_string])])))

\* the end of statement_for: the assignment and the new frame
push_for(s, r, startv, endv, stepv) ==
    Bind(Store(s, r.vp, startv), LAMBDA s5 :
    Bind(slot_name(s5, r.vp), LAMBDA nm :
    [s5 EXCEPT !.for_stack =
        Append(@, [var |-> r.vp,
                   end_value |-> endv.num,
                   step |-> stepv.num,
                   resume_pos |-> s5.statement_pos,
                   line_index |-> s5.current_line,
                   name1 |-> nm.name1,
                   name2 |-> nm.name2,
                   is_string |-> r.is_string])]))

\* statement_for as it would be if the stack took one frame more than
\* MAX_FOR
statement_for_one_more(s) ==
    IF Len(s.for_stack) > MAX_FOR THEN runtime_error(s, "FOR stack overflow")
    ELSE
    Bind(get_var_reference(s), LAMBDA r :
    IF r.vp = NULLREF THEN r.s
    ELSE IF r.is_array = 1
    THEN runtime_error(r.s, "FOR variable must be scalar")
    ELSE IF r.is_string = 1
    THEN runtime_error(r.s, "FOR variable must be numeric")
    ELSE
    Bind(skip_spaces(r.s), LAMBDA s1 :
    IF Peek(s1) # "=" THEN runtime_error(s1, "Expected '=' in FOR")
    ELSE
    Bind(eval_expr(Adv(s1, 1)), LAMBDA startv :
    Bind(skip_spaces(ensure_num(startv.s, startv.v)), LAMBDA s2 :
    IF ~starts_with_kw(s2, kwd["TO"]) THEN runtime_error(s2, "Expected TO in FOR")
    ELSE
    Bind(eval_expr(Adv(s2, 2)), LAMBDA endv :
    Bind(skip_spaces(ensure_num(endv.s, endv.v)), LAMBDA s3 :
    IF starts_with_kw(s3, kwd["STEP"])
    THEN Bind(eval_expr(Adv(s3, 4)), LAMBDA stepv :
         push_for(ensure_num(stepv.s, stepv.v), r, startv.v, endv.v, stepv.v))
    ELSE push_for(s3, r, startv.v, endv.v, make_num(1))))))))

statement_for(s) ==
    IF Len(s.for_stack) >= MAX_FOR THEN runtime_error(s, "FOR stack overflow")
    ELSE
    Bind(get_var_reference(s), LAMBDA r :
    IF r.vp = NULLREF THEN r.s
    ELSE IF r.is_array = 1
    THEN runtime_error(r.s, "FOR variable must be scalar")
    ELSE IF r.is_string = 1
    THEN runtime_error(r.s, "FOR variable must be numeric")
    ELSE
    Bind(skip_spaces(r.s), LAMBDA s1 :
    IF Peek(s1) # "=" THEN runtime_error(s1, "Expected '=' in FOR")
    ELSE
    Bind(eval_expr(Adv(s1, 1)), LAMBDA startv :
    Bind(skip_spaces(ensure_num(startv.s, startv.v)), LAMBDA s2 :
    IF ~starts_with_kw(s2, kwd["TO"]) THEN runtime_error(s2, "Expected TO in FOR")
    ELSE
    Bind(eval_expr(Adv(s2, 2)), LAMBDA endv :
    Bind(skip_spaces(ensure_num(endv.s, endv.v)), LAMBDA s3 :
    IF starts_with_kw(s3, kwd["STEP"])
    THEN Bind(eval_expr(Adv(s3, 4)), LAMBDA stepv :
         push_for(ensure_num(stepv.s, stepv.v), r, startv.v, endv.v, stepv.v))
    ELSE push_for(s3, r, startv.v, endv.v, make_num(1))))))))

\* the loop of statement_next as it would be if it stopped at the top frame
\* whatever the name
find_frame_top(s, buf, i) ==
    IF i <= 0 THEN 0 ELSE i

\* the frame the loop of statement_next stops at, as a count of frames; 0
\* when it runs off the stack
RECURSIVE find_frame(_, _, _)
find_frame(s, buf, i) ==
    IF i <= 0 THEN 0
    ELSE IF \/ buf = << >>
            \/ (s.for_stack[i].name1 = uppercase_name(buf).n1
                /\ s.for_stack[i].name2 = uppercase_name(buf).n2)
    THEN i
    ELSE find_frame(s, buf, i - 1)

\* statement_next from for_top = i + 1 on as it would be if the loop ended
\* when the variable reaches the limit
next_step_strict(s, top) ==
    Bind([s EXCEPT !.for_stack = SubSeq(@, 1, top)], LAMBDA s2 :
    Bind(s2.for_stack[top], LAMBDA fr :
    IF fr.var = NULLREF THEN runtime_error(s2, "Loop variable missing")
    ELSE
    Bind(Store(s2, fr.var, [Load(s2, fr.var) EXCEPT !.num = @ + fr.step]),
         LAMBDA s3 :
    Bind(Load(s3, fr.var).num, LAMBDA v :
    IF \/ (fr.step >= 0 /\ v < fr.end_value)
       \/ (fr.step < 0 /\ v > fr.end_value)
    THEN [s3 EXCEPT !.current_line = fr.line_index,
                    !.statement_pos = fr.resume_pos]
    ELSE [s3 EXCEPT !.for_stack = SubSeq(@, 1, top - 1)]))))

\* statement_next from for_top = i + 1 on
next_step(s, top) ==
    Bind([s EXCEPT !.for_stack = SubSeq(@, 1, top)], LAMBDA s2 :
    Bind(s2.for_stack[top], LAMBDA fr :
    IF fr.var = NULLREF THEN runtime_error(s2, "Loop variable missing")
    ELSE
    Bind(Store(s2, fr.var, [Load(s2, fr.var) EXCEPT !.num = @ + fr.step]),
         LAMBDA s3 :
    Bind(Load(s3, fr.var).num, LAMBDA v :
    IF \/ (fr.step >= 0 /\ v <= fr.end_value)
       \/ (fr.step < 0 /\ v >= fr.end_value)
    THEN [s3 EXCEPT !.current_line = fr.line_index,
                    !.statement_pos = fr.resume_pos]
    ELSE [s3 EXCEPT !.for_stack = SubSeq(@, 1, top - 1)]))))

statement_next(s) ==
    Bind(skip_spaces(s), LAMBDA s1 :
    Bind(IF isalpha(Peek(s1)) THEN read_identifier(s1, NAMEBUF_SIZE)
         ELSE [buf |-> << >>, s |-> s1], LAMBDA id :
    Bind(find_frame(id.s, id.buf, Len(id.s.for_stack)), LAMBDA top :
    IF top = 0 THEN runtime_error(id.s, "NEXT without FOR")
    ELSE next_step(id.s, top))))

RECURSIVE statement_dim(_)
statement_dim(s) ==
    Bind(skip_spaces(s), LAMBDA s1 :
    IF ~isalpha(Peek(s1)) THEN runtime_error(s1, "Expected array name")
    ELSE
    Bind(read_identifier(s1, NAMEBUF_SIZE), LAMBDA id :
    Bind(uppercase_name(id.buf), LAMBDA nm :
    Bind(skip_spaces(id.s), LAMBDA s2 :
    IF Peek(s2) # "(" THEN runtime_error(s2, "DIM requires size")
    ELSE
    Bind(eval_expr(Adv(s2, 1)), LAMBDA sizev :
    Bind(ensure_num(sizev.s, sizev.v), LAMBDA s3 :
    IF sizev.v.num + 1 <= 0 THEN runtime_error(s3, "Invalid array size")
    ELSE
    Bind(skip_spaces(s3), LAMBDA s4 :
    IF Peek(s4) # ")" THEN runtime_error(s4, "Missing ')'")
    ELSE
    Bind(skip_spaces(find_or_create_var(Adv(s4, 1), nm.n1, nm.n2,
                                        nm.is_string, 1, sizev.v.num + 1).s),
         LAMBDA s5 :
    IF Peek(s5) = "," THEN statement_dim(Adv(s5, 1)) ELSE s5))))))))

\* statement_end as it would be if it only skipped the rest of the line
statement_end_skips(s) == Adv(s, RestLen(s))

statement_end(s) == Adv([s EXCEPT !.halted = 1], RestLen(s))

\* the keyword execute_statement dispatches on, with the length it moves
\* the cursor by before the call of the handler
Dispatch(s) ==
    IF starts_with_kw(s, kwd["REM"]) \/ Peek(s) = "'"
    THEN [kw |-> "REM", len |-> 0]
    ELSE IF Peek(s) = "?" THEN [kw |-> "PRINT", len |-> 1]
    ELSE IF starts_with_kw(s, kwd["PRINT"]) THEN [kw |-> "PRINT", len |-> 5]
    ELSE IF starts_with_kw(s, kwd["INPUT"]) THEN [kw |-> "INPUT", len |-> 5]
    ELSE IF starts_with_kw(s, kwd["LET"]) THEN [kw |-> "LET", len |-> 3]
    ELSE IF starts_with_kw(s, kwd["GOTO"]) THEN [kw |-> "GOTO", len |-> 4]
    ELSE IF starts_with_kw(s, kwd["GOSUB"]) THEN [kw |-> "GOSUB", len |-> 5]
    ELSE IF starts_with_kw(s, kwd["RETURN"]) THEN [kw |-> "RETURN", len |-> 6]
    ELSE IF starts_with_kw(s, kwd["IF"]) THEN [kw |-> "IF", len |-> 2]
    ELSE IF starts_with_kw(s, kwd["FOR"]) THEN [kw |-> "FOR", len |-> 3]
    ELSE IF starts_with_kw(s, kwd["NEXT"]) THEN [kw |-> "NEXT", len |-> 4]
    ELSE IF starts_with_kw(s, kwd["DIM"]) THEN [kw |-> "DIM", len |-> 3]
    ELSE IF starts_with_kw(s, kwd["END"]) \/ starts_with_kw(s, kwd["STOP"])
    THEN [kw |-> "END", len |-> 0]
    ELSE IF isalpha(Peek(s)) THEN [kw |-> "LET", len |-> 0]
    ELSE [kw |-> "UNKNOWN", len |-> 0]

\* execute_statement up to the call of the handler: the machine the handler
\* receives
before_handler(s) ==
    Bind(skip_spaces(s), LAMBDA s1 :
    Adv(s1, Dispatch(s1).len))

(***************************************************************************)
(* The program store and the loader.                                       *)
(***************************************************************************)
\* dupstr_local: the copy of a text that fgets has bounded by MAX_LINE_LEN
dupstr_local(text) == text

\* add_or_replace_line as it would be if it kept the text a numbered line
\* already has
add_or_keep_line(s, pl, number, text) ==
    IF \E i \in 1..Len(pl) : pl[i].number = number THEN [pl |-> pl, s |-> s]
    ELSE IF Len(pl) >= MAX_LINES
    THEN [pl |-> pl, s |-> runtime_error(s, "Program too large")]
    ELSE [pl |-> Append(pl, [number |-> number, text |-> dupstr_local(text)]),
          s |-> s]

\* add_or_replace_line on the store pl; the machine s takes the diagnostic
add_or_replace_line(s, pl, number, text) ==
    LET hit == {i \in 1..Len(pl) : pl[i].number = number}
        i == CHOOSE k \in hit : \A j \in hit : k <= j
    IN  IF hit # {}
        THEN [pl |-> [pl EXCEPT ![i].text = dupstr_local(text)], s |-> s]
        ELSE IF Len(pl) >= MAX_LINES
        THEN [pl |-> pl, s |-> runtime_error(s, "Program too large")]
        ELSE [pl |-> Append(pl, [number |-> number, text |-> dupstr_local(text)]),
              s |-> s]

Swap(pl, i, j) == [pl EXCEPT ![i] = pl[j], ![j] = pl[i]]

\* the inner loop of sort_program as it would be with its comparison turned
RECURSIVE sort_inner_descending(_, _, _)
sort_inner_descending(pl, i, j) ==
    IF j > Len(pl) THEN pl
    ELSE sort_inner_descending(
            IF pl[j].number > pl[i].number THEN Swap(pl, i, j) ELSE pl,
            i, j + 1)

\* the inner loop of sort_program, for (j = i + 1; j < line_count; j++)
RECURSIVE sort_inner(_, _, _)
sort_inner(pl, i, j) ==
    IF j > Len(pl) THEN pl
    ELSE sort_inner(IF pl[j].number < pl[i].number THEN Swap(pl, i, j) ELSE pl,
                    i, j + 1)

\* the outer loop of sort_program, for (i = 0; i < line_count; i++)
RECURSIVE sort_outer(_, _)
sort_outer(pl, i) ==
    IF i > Len(pl) THEN pl ELSE sort_outer(sort_inner(pl, i, i + 1), i + 1)

sort_program(pl) == sort_outer(pl, 1)

\* the line fgets returns next, and the parse of it in load_program
NextLine == file[file_pos + 1]
BOM == << "EF", "BB", "BF" >>
LineStart(l) ==
    LET p == SkipWhile(l, 1, {" ", "\t"})
    IN  IF << CharAt(l, p), CharAt(l, p + 1), CharAt(l, p + 2) >> = BOM
        THEN p + 3 ELSE p
RECURSIVE SkipNonSpace(_, _)
SkipNonSpace(l, p) ==
    IF CharAt(l, p) # NUL /\ ~isspace(CharAt(l, p))
    THEN SkipNonSpace(l, p + 1) ELSE p
LineText(l) ==
    Suffix(l, SkipWhile(l, SkipNonSpace(l, LineStart(l)), {" ", "\t"}))
Reading == pc = "load" /\ file_pos < Len(file)
TooLong(l) == Len(l) >= MAX_LINE_LEN - 1

Exit(code) ==
    /\ pc' = "exit"
    /\ exit_code' = code

\* fgets fills the buffer without reaching the newline: exit(1)
LoadTooLong ==
    /\ Reading
    /\ TooLong(NextLine)
    /\ Exit(1)
    /\ err' = Append(err, [line |-> -1, msg |-> "Line too long"])
    /\ file_pos' = file_pos + 1
    /\ UNCHANGED << file, comparison, expression, lookup,
                    program_lines, current_line, statement_pos, halted,
                    print_col, vars, gosub_stack, for_stack, last_lookup_num,
                    last_lookup_idx, out, trace >>

\* an empty or blank line is skipped
LoadBlank ==
    /\ Reading
    /\ ~TooLong(NextLine)
    /\ CharAt(NextLine, LineStart(NextLine)) = NUL
    /\ file_pos' = file_pos + 1
    /\ UNCHANGED << file, comparison, expression, lookup,
                    pc, exit_code, program_lines, current_line,
                    statement_pos, halted, print_col, vars, gosub_stack,
                    for_stack, last_lookup_num, last_lookup_idx, out, err,
                    trace >>

\* a line that does not start with a digit: exit(1)
LoadMissingNumber ==
    /\ Reading
    /\ ~TooLong(NextLine)
    /\ CharAt(NextLine, LineStart(NextLine)) # NUL
    /\ ~isdigit(CharAt(NextLine, LineStart(NextLine)))
    /\ Exit(1)
    /\ err' = Append(err, [line |-> -1, msg |-> "Line missing number"])
    /\ file_pos' = file_pos + 1
    /\ UNCHANGED << file, comparison, expression, lookup,
                    program_lines, current_line, statement_pos, halted,
                    print_col, vars, gosub_stack, for_stack, last_lookup_num,
                    last_lookup_idx, out, trace >>

\* a line number above 65535: exit(1)
LoadOutOfRange ==
    /\ Reading
    /\ ~TooLong(NextLine)
    /\ isdigit(CharAt(NextLine, LineStart(NextLine)))
    /\ LET number == atoi(NextLine, LineStart(NextLine))
       IN  number < 0 \/ number > MAX_LINE_NUMBER
    /\ Exit(1)
    /\ err' = Append(err, [line |-> -1, msg |-> "Line number out of range"])
    /\ file_pos' = file_pos + 1
    /\ UNCHANGED << file, comparison, expression, lookup,
                    program_lines, current_line, statement_pos, halted,
                    print_col, vars, gosub_stack, for_stack, last_lookup_num,
                    last_lookup_idx, out, trace >>

\* a numbered line goes to the store
LoadLine ==
    /\ Reading
    /\ ~TooLong(NextLine)
    /\ isdigit(CharAt(NextLine, LineStart(NextLine)))
    /\ LET number == atoi(NextLine, LineStart(NextLine))
           r == add_or_replace_line(Machine(FALSE), program_lines, number,
                                    LineText(NextLine))
       IN  /\ number >= 0 /\ number <= MAX_LINE_NUMBER
           /\ program_lines' = r.pl
           /\ halted' = r.s.halted
           /\ err' = r.s.err
    /\ file_pos' = file_pos + 1
    /\ UNCHANGED << file, comparison, expression, lookup,
                    pc, exit_code, current_line, statement_pos,
                    print_col, vars, gosub_stack, for_stack, last_lookup_num,
                    last_lookup_idx, out, trace >>

\* end of file: fclose and sort_program
LoadDone ==
    /\ pc = "load"
    /\ file_pos = Len(file)
    /\ pc' = "loaded"
    /\ program_lines' = sort_program(program_lines)
    /\ UNCHANGED << file, comparison, expression, lookup,
                    file_pos, exit_code, current_line, statement_pos,
                    halted, print_col, vars, gosub_stack, for_stack,
                    last_lookup_num, last_lookup_idx, out, err, trace >>

(***************************************************************************)
(* The execution driver, run_program.  One action is one iteration of its  *)
(* loop: the statement at the cursor is executed by the handler that       *)
(* execute_statement dispatches to, and the cursor is moved on.            *)
(***************************************************************************)
\* the first assignments of run_program
RunStart ==
    /\ pc = "loaded"
    /\ pc' = "run"
    /\ halted' = 0
    /\ current_line' = 0
    /\ statement_pos' = NULL
    /\ print_col' = 0
    /\ UNCHANGED << file, comparison, expression, lookup,
                    file_pos, exit_code, program_lines, vars,
                    gosub_stack, for_stack, last_lookup_num, last_lookup_idx,
                    out, err, trace >>

\* the condition of the while loop
Running ==
    /\ pc = "run"
    /\ halted = 0
    /\ current_line >= 0
    /\ current_line < line_count

\* the local p of an iteration: statement_pos, or the start of the current
\* line when it is NULL, after skip_spaces
StatementStart ==
    IF statement_pos = NULL
    THEN Ptr(current_line, SkipWhile(Text(current_line), 1, {" ", "\t"}))
    ELSE Ptr(statement_pos.line,
             SkipWhile(Text(statement_pos.line), statement_pos.off,
                       {" ", "\t"}))

AtStatement ==
    Running /\ CharAt(Text(StatementStart.line), StatementStart.off) # NUL

\* the part of an iteration after execute_statement as it would be if a colon
\* ended the line
AfterStatementEndsLine(s) ==
    IF s.halted = 1 \/ s.statement_pos = NULL THEN s
    ELSE Bind(skip_spaces(s), LAMBDA a :
         IF Peek(a) = ":" \/ Peek(a) = NUL
         THEN [a EXCEPT !.current_line = @ + 1, !.statement_pos = NULL]
         ELSE a)

\* the part of an iteration after execute_statement
AfterStatement(s) ==
    IF s.halted = 1 \/ s.statement_pos = NULL THEN s
    ELSE Bind(skip_spaces(s), LAMBDA a :
         IF Peek(a) = ":" THEN Adv(a, 1)
         ELSE IF Peek(a) = NUL
         THEN [a EXCEPT !.current_line = @ + 1, !.statement_pos = NULL]
         ELSE a)

\* an iteration that finds the end of the line: on to the next line
EndOfLine ==
    /\ Running
    /\ ~AtStatement
    /\ current_line' = current_line + 1
    /\ statement_pos' = NULL
    /\ UNCHANGED << file, comparison, expression, lookup,
                    pc, file_pos, exit_code, program_lines, halted,
                    print_col, vars, gosub_stack, for_stack, last_lookup_num,
                    last_lookup_idx, out, err, trace >>

\* the machine at the call of execute_statement
AtCall(moves) == [Machine(moves) EXCEPT !.statement_pos = StatementStart]

\* the keyword of the statement at the cursor
Keyword == Dispatch(AtCall(FALSE)).kw

\* the machine at the call of the handler of the statement at the cursor
AtHandler(moves) == before_handler(AtCall(moves))

\* the loop is at a statement of the kind kw
Starts(kw) ==
    /\ AtStatement
    /\ Len(trace) < MaxSteps
    /\ Keyword = kw

\* the rest of an iteration on a statement of the kind kw, where s is the
\* machine execute_statement leaves; cond is what the history keeps of a
\* condition
Iteration(kw, s, cond) ==
    /\ \E a \in {AfterStatement(s)} :
          /\ statement_pos' = a.statement_pos
          /\ current_line' = a.current_line
          /\ halted' = a.halted
          /\ print_col' = a.print_col
          /\ vars' = a.vars
          /\ gosub_stack' = a.gosub_stack
          /\ for_stack' = a.for_stack
          /\ last_lookup_num' = a.last_lookup_num
          /\ last_lookup_idx' = a.last_lookup_idx
          /\ out' = a.out
          /\ err' = a.err
    /\ trace' = Append(trace, [line |-> StatementStart.line,
                               off |-> StatementStart.off,
                               kw |-> kw, cond |-> cond])
    /\ UNCHANGED << file, comparison, expression, lookup,
                    pc, file_pos, exit_code, program_lines >>

DoRem ==
    /\ Starts("REM")
    /\ Iteration("REM", statement_rem(AtHandler(FALSE)), -1)

DoPrint ==
    /\ Starts("PRINT")
    /\ Iteration("PRINT", statement_print(AtHandler(FALSE)), -1)

DoLet ==
    /\ Starts("LET")
    /\ \E moves \in BOOLEAN :
          Iteration("LET", statement_let(AtHandler(moves)), -1)

DoGoto ==
    /\ Starts("GOTO")
    /\ Iteration("GOTO", statement_goto(AtHandler(FALSE)), -1)

DoGosub ==
    /\ Starts("GOSUB")
    /\ Iteration("GOSUB", statement_gosub(AtHandler(FALSE)), -1)

DoReturn ==
    /\ Starts("RETURN")
    /\ Iteration("RETURN", statement_return(AtHandler(FALSE)), -1)

DoIf ==
    /\ Starts("IF")
    /\ Iteration("IF", statement_if(AtHandler(FALSE)),
                 eval_condition(AtHandler(FALSE)).v)

DoFor ==
    /\ Starts("FOR")
    /\ Iteration("FOR", statement_for(AtHandler(FALSE)), -1)

DoNext ==
    /\ Starts("NEXT")
    /\ Iteration("NEXT", statement_next(AtHandler(FALSE)), -1)

DoDim ==
    /\ Starts("DIM")
    /\ Iteration("DIM", statement_dim(AtHandler(FALSE)), -1)

DoEnd ==
    /\ Starts("END")
    /\ Iteration("END", statement_end(AtHandler(FALSE)), -1)

DoUnknown ==
    /\ Starts("UNKNOWN")
    /\ Iteration("UNKNOWN", runtime_error(AtHandler(FALSE), "Unknown statement"),
                 -1)

\* the loop is left: cleanup_program, and main returns 0
RunExit ==
    /\ pc = "run"
    /\ ~Running
    /\ Exit(0)
    /\ program_lines' = << >>
    /\ vars' = << >>
    /\ UNCHANGED << file, comparison, expression, lookup,
                    file_pos, current_line, statement_pos, halted,
                    print_col, gosub_stack, for_stack, last_lookup_num,
                    last_lookup_idx, out, err, trace >>

(***************************************************************************)
(* Comparisons in expressions: eval_comparison of the extended             *)
(* interpreter (src/unnamed/part_002:1040-1108), on the values eval_expr   *)
(* returned for the two sides and the operator between them.  make_num,    *)
(* make_str, ensure_num, ensure_str and strcmp are those above (the same   *)
(* code, part_002:270-305); its runtime_error (part_002:155-159) writes    *)
(* 'Error: <message>' without a line, which is the entry with line -1.    *)
(***************************************************************************)
NoComparison == [op |-> << >>, done |-> -1]

\* -1.0 for true, 0.0 for false
relation(b) == make_num(IF b THEN -1 ELSE 0)

eval_comparison(s, left, op, right) ==
    IF op = << "<", ">" >>
    THEN IF left.type = VAL_STR \/ right.type = VAL_STR
         THEN [s |-> ensure_str(ensure_str(s, left), right),
               v |-> relation(strcmp(left.str, right.str) # 0)]
         ELSE [s |-> s, v |-> relation(left.num # right.num)]
    ELSE IF op = << "<", "=" >>
    THEN [s |-> ensure_num(ensure_num(s, left), right),
          v |-> relation(left.num <= right.num)]
    ELSE IF op = << ">", "=" >>
    THEN [s |-> ensure_num(ensure_num(s, left), right),
          v |-> relation(left.num >= right.num)]
    ELSE IF op = << "<" >>
    THEN IF left.type = VAL_STR \/ right.type = VAL_STR
         THEN [s |-> ensure_str(ensure_str(s, left), right),
               v |-> relation(strcmp(left.str, right.str) < 0)]
         ELSE [s |-> s, v |-> relation(left.num < right.num)]
    ELSE IF op = << ">" >>
    THEN IF left.type = VAL_STR \/ right.type = VAL_STR
         THEN [s |-> ensure_str(ensure_str(s, left), right),
               v |-> relation(strcmp(left.str, right.str) > 0)]
         ELSE [s |-> s, v |-> relation(left.num > right.num)]
    ELSE IF op = << "=" >>
    THEN IF left.type = VAL_STR \/ right.type = VAL_STR
         THEN [s |-> ensure_str(ensure_str(s, left), right),
               v |-> relation(strcmp(left.str, right.str) = 0)]
         ELSE [s |-> s, v |-> relation(left.num = right.num)]
    ELSE [s |-> s, v |-> left]

\* one call of eval_comparison
Compare ==
    /\ pc = "compare"
    /\ comparison.done = 0
    /\ \E r \in {eval_comparison(Machine(FALSE), comparison.left,
                                 comparison.op, comparison.right)} :
          /\ comparison' = [comparison EXCEPT !.result = r.v, !.done = 1]
          /\ halted' = r.s.halted
          /\ err' = r.s.err
    /\ UNCHANGED << file, expression, lookup, pc, file_pos, exit_code, program_lines,
                    current_line, statement_pos, print_col, vars,
                    gosub_stack, for_stack, last_lookup_num, last_lookup_idx,
                    out, trace >>

(***************************************************************************)
(* Expressions of the extended interpreter (src/unnamed/part_002): the     *)
(* operators AND and OR, the string '+', and the functions NOT, LEN,       *)
(* LEFT$, MID$ and INSTR, on the values their operands evaluate to.  An    *)
(* expression is a tree [fn, args] over the leaves [fn |-> "value", v];    *)
(* the text it was parsed from is not modelled.  The numbers are the       *)
(* doubles with an integer value, on which the cast (int) is exact, and    *)
(* the strings are far shorter than the buffers (MAX_STR_LEN is 256        *)
(* there).                                                                 *)
(***************************************************************************)
EXT_MAX_STR_LEN == 256

NoExpression == [fn |-> "none", done |-> -1]

\* the operators & | ~ of C on two's complement integers, bit by bit from
\* the lowest; the bits above the operands are all 0, or all 1 when negative
RECURSIVE BitAnd(_, _)
BitAnd(a, b) ==
    IF a = 0 \/ b = 0 THEN 0
    ELSE IF a = -1 THEN b
    ELSE IF b = -1 THEN a
    ELSE 2 * BitAnd(a \div 2, b \div 2) + (a % 2) * (b % 2)

RECURSIVE BitOr(_, _)
BitOr(a, b) ==
    IF a = 0 THEN b
    ELSE IF b = 0 THEN a
    ELSE IF a = -1 \/ b = -1 THEN -1
    ELSE 2 * BitOr(a \div 2, b \div 2)
            + (IF a % 2 = 1 \/ b % 2 = 1 THEN 1 ELSE 0)

RECURSIVE BitNot(_)
BitNot(a) ==
    IF a = 0 THEN -1
    ELSE IF a = -1 THEN 0
    ELSE 2 * BitNot(a \div 2) + (1 - (a % 2))

\* strstr(3): the offset of the first occurrence of needle in hay at or
\* after offset k, or -1 for the null pointer
RECURSIVE strstr_last(_, _, _)
strstr_last(hay, needle, k) ==
    IF k + Len(needle) > Len(hay) THEN -1
    ELSE IF strstr_last(hay, needle, k + 1) >= 0
    THEN strstr_last(hay, needle, k + 1)
    ELSE IF SubSeq(hay, k + 1, k + Len(needle)) = needle THEN k
    ELSE -1

RECURSIVE strstr(_, _, _)
strstr(hay, needle, k) ==
    IF k + Len(needle) > Len(hay) THEN -1
    ELSE IF SubSeq(hay, k + 1, k + Len(needle)) = needle THEN k
    ELSE strstr(hay, needle, k + 1)

\* one round of the loop of eval_and_expr (fn = "AND") or eval_or_expr
\* (fn = "OR"), after both sides
eval_logical_truth(s, fn, left, right) ==
    [s |-> ensure_num(ensure_num(s, left), right),
     v |-> [left EXCEPT !.num =
               IF fn = "AND"
               THEN (IF left.num # 0 /\ right.num # 0 THEN 1 ELSE 0)
               ELSE (IF left.num # 0 \/ right.num # 0 THEN 1 ELSE 0)]]

eval_logical(s, fn, left, right) ==
    [s |-> ensure_num(ensure_num(s, left), right),
     v |-> [left EXCEPT !.num =
               IF fn = "AND" THEN BitAnd(left.num, right.num)
               ELSE BitOr(left.num, right.num)]]

\* the '+' of eval_expr, after both sides
eval_plus_left(s, left, right) ==
    IF left.type = VAL_STR \/ right.type = VAL_STR
    THEN [s |-> ensure_str(ensure_str(s, left), right), v |-> left]
    ELSE [s |-> s, v |-> [left EXCEPT !.num = @ + right.num]]

eval_plus(s, left, right) ==
    IF left.type = VAL_STR \/ right.type = VAL_STR
    THEN [s |-> ensure_str(ensure_str(s, left), right),
          v |-> [left EXCEPT !.str = strncat(@, right.str,
                                              EXT_MAX_STR_LEN - Len(@) - 1)]]
    ELSE [s |-> s, v |-> [left EXCEPT !.num = @ + right.num]]

\* eval_or_expr on the tree e, and eval_function on the function name and
\* the trees of its arguments: each argument is evaluated by eval_or_expr
\* where the code reaches it
RECURSIVE evaluate(_, _)
RECURSIVE ext_eval_function(_, _, _)
ext_eval_function(s, name, args) ==
    Bind(evaluate(s, args[1]), LAMBDA arg :
    Bind(Len(arg.v.str), LAMBDA slen :
    IF name = "LEN"
    THEN [s |-> ensure_str(arg.s, arg.v), v |-> make_num(slen)]
    ELSE IF name = "NOT"
    THEN [s |-> ensure_num(arg.s, arg.v), v |-> make_num(BitNot(arg.v.num))]
    ELSE IF name = "LEFT$"
    THEN Bind(evaluate(ensure_str(arg.s, arg.v), args[2]), LAMBDA len_val :
         Bind(IF len_val.v.num < 0 THEN 0
              ELSE IF len_val.v.num > slen THEN slen
              ELSE len_val.v.num, LAMBDA len :
         [s |-> ensure_num(len_val.s, len_val.v),
          v |-> make_str(SubSeq(arg.v.str, 1, len))]))
    ELSE IF name = "MID$"
    THEN Bind(evaluate(ensure_str(arg.s, arg.v), args[2]), LAMBDA start_val :
         Bind(ensure_num(start_val.s, start_val.v), LAMBDA s1 :
         Bind(IF Len(args) >= 3
              THEN Bind(evaluate(s1, args[3]), LAMBDA len_val :
                        [s |-> ensure_num(len_val.s, len_val.v),
                         len |-> len_val.v.num])
              ELSE [s |-> s1, len |-> slen], LAMBDA l :
         Bind((IF start_val.v.num < 1 THEN 1 ELSE start_val.v.num) - 1,
              LAMBDA start :
         IF start >= slen THEN [s |-> l.s, v |-> make_str(<< >>)]
         ELSE
         Bind(IF l.len < 0 THEN 0
              ELSE IF start + l.len > slen THEN slen - start
              ELSE l.len, LAMBDA len :
         [s |-> l.s,
          v |-> make_str(SubSeq(arg.v.str, start + 1, start + len))])))))
    ELSE IF name = "INSTR"
    THEN Bind(evaluate(ensure_str(arg.s, arg.v), args[2]), LAMBDA needle_val :
         Bind(strstr(arg.v.str, needle_val.v.str, 0), LAMBDA found :
         [s |-> ensure_str(needle_val.s, needle_val.v),
          v |-> make_num(IF found >= 0 THEN found + 1 ELSE 0)]))
    ELSE [s |-> runtime_error(arg.s, "Unknown function"), v |-> make_num(0)]))

evaluate(s, e) ==
    IF e.fn = "value" THEN [s |-> s, v |-> e.v]
    ELSE IF e.fn \in {"AND", "OR", "+"}
    THEN Bind(evaluate(s, e.args[1]), LAMBDA left :
         Bind(evaluate(left.s, e.args[2]), LAMBDA right :
         IF e.fn = "+" THEN eval_plus(right.s, left.v, right.v)
         ELSE eval_logical(right.s, e.fn, left.v, right.v)))
    ELSE ext_eval_function(s, e.fn, e.args)

\* one call of eval_or_expr
Evaluate ==
    /\ pc = "evaluate"
    /\ expression.done = 0
    /\ \E r \in {evaluate(Machine(FALSE), expression)} :
          /\ expression' = [expression EXCEPT !.result = r.v, !.done = 1]
          /\ halted' = r.s.halted
          /\ err' = r.s.err
    /\ UNCHANGED << file, comparison, lookup, pc, file_pos, exit_code, program_lines,
                    current_line, statement_pos, print_col, vars,
                    gosub_stack, for_stack, last_lookup_num, last_lookup_idx,
                    out, trace >>


(***************************************************************************)
(* Lookups of lines by number: find_line_index called with any number, as  *)
(* GOTO, GOSUB and IF ... THEN call it with the number atoi has read.      *)
(***************************************************************************)
NoLookup == [number |-> -1, idx |-> -1]

\* one call of find_line_index, with a number from -1 to MaxLookup + 1
Lookup ==
    /\ pc = "lookup"
    /\ \E number \in (0 - 1)..(MaxLookup + 1) :
       \E r \in {find_line_index(Machine(FALSE), number)} :
          /\ lookup' = [number |-> number, idx |-> r.idx]
          /\ last_lookup_num' = r.s.last_lookup_num
          /\ last_lookup_idx' = r.s.last_lookup_idx
    /\ UNCHANGED << file, comparison, expression, pc, file_pos, exit_code,
                    program_lines, current_line, statement_pos, halted,
                    print_col, vars, gosub_stack, for_stack, out, err,
                    trace >>
(***************************************************************************)
(* The source files the model loads and runs.                              *)
(***************************************************************************)
\* the line numbers and the statement texts the generated files draw from
LineNumbers == {10, 20, 30}

\* A=A+1:PRINT A;
TextCount ==
    << "A","=","A","+","1",":","P","R","I","N","T"," ","A",";" >>

\* DIM B(2) : LET B(1)=B(1)+2 : ? B(1),"Z"
TextArray ==
    << "D","I","M"," ","B","(","2",")"," ",":"," ","L","E","T"," ","B","(",
       "1",")","=","B","(","1",")","+","2"," ",":"," ","?"," ","B","(","1",
       ")",",","\"","Z","\"" >>

TextPool == {TextCount, TextArray}

\* a physical line: the number, a space, the text
MkLine(n, text) == NatDigits(n) \o << " " >> \o text

\* every file of one to MaxFileLines numbered lines, in any order and with
\* repeated numbers
GeneratedFiles ==
    LET lines == {MkLine(n, t) : n \in LineNumbers, t \in TextPool}
    IN  UNION {[1..k -> lines] : k \in 1..MaxFileLines}

\*   10 FOR J=1 TO 2 : FOR I=1 TO 2 : C=C+1 : NEXT J
\*   20 PRINT C;I;J
FileNextJ ==
    << << "1","0"," ","F","O","R"," ","J","=","1"," ","T","O"," ","2"," ",
          ":"," ","F","O","R"," ","I","=","1"," ","T","O"," ","2"," ",":",
          " ","C","=","C","+","1"," ",":"," ","N","E","X","T"," ","J" >>,
       << "2","0"," ","P","R","I","N","T"," ","C",";","I",";","J" >> >>

\*   10 IF "" THEN PRINT "A" : PRINT "B"
\*   20 IF A$ THEN A=1 : GOTO 10
\*   30 IF 1>2 THEN 10 : PRINT "D"
\*   40 PRINT "C";A
FileIfEmpty ==
    << << "1","0"," ","I","F"," ","\"","\""," ","T","H","E","N"," ","P","R",
          "I","N","T"," ","\"","A","\""," ",":"," ","P","R","I","N","T"," ",
          "\"","B","\"" >>,
       << "2","0"," ","I","F"," ","A","$"," ","T","H","E","N"," ","A","=",
          "1"," ",":"," ","G","O","T","O"," ","1","0" >>,
       << "3","0"," ","I","F"," ","1",">","2"," ","T","H","E","N"," ","1",
          "0"," ",":"," ","P","R","I","N","T"," ","\"","D","\"" >>,
       << "4","0"," ","P","R","I","N","T"," ","\"","C","\"",";","A" >> >>

\* 10 FOR I=a TO b : C=C+1 : NEXT
ForText(a, b) ==
    << "F","O","R"," ","I","=" >> \o FormatG(a) \o << " ","T","O"," " >>
    \o FormatG(b)
ForFileOneLine(a, b) ==
    << MkLine(10, ForText(a, b) \o << " ",":"," " >> \o << "C","=","C","+","1" >>
                  \o << " ",":"," ","N","E","X","T" >>) >>

\* 10 FOR I=a TO b / 20 C=C+1 / 30 NEXT I / 40 PRINT C
ForFileLines(a, b) ==
    << MkLine(10, ForText(a, b)),
       MkLine(20, << "C","=","C","+","1" >>),
       MkLine(30, << "N","E","X","T"," ","I" >>),
       MkLine(40, << "P","R","I","N","T"," ","C" >>) >>

\* the limits a and b of the generated FOR loops
LoopValues == (0 - 1)..MaxLoop
ForFiles ==
    {ForFileOneLine(a, b) : a, b \in LoopValues}
    \cup {ForFileLines(a, b) : a, b \in LoopValues}

\* a file of one line more than the store holds: 1 PRINT "A"; up to
\* 513 PRINT "A";
FileTooLarge ==
    [n \in 1..(MAX_LINES + 1) |->
        MkLine(n, << "P","R","I","N","T"," ","\"","A","\"",";" >>)]

\* the programs that are run beside the generated ones
NamedFiles ==
    {
      \*   10 GOSUB 100 : PRINT "D"
      \*   20 GOSUB 100
      \*   30 END
      \*   100 PRINT "S"; : RETURN
      << << "1","0"," ","G","O","S","U","B"," ","1","0","0"," ",":"," ","P",
            "R","I","N","T"," ","\"","D","\"" >>,
         << "2","0"," ","G","O","S","U","B"," ","1","0","0" >>,
         << "3","0"," ","E","N","D" >>,
         << "1","0","0"," ","P","R","I","N","T"," ","\"","S","\"",";"," ",":",
            " ","R","E","T","U","R","N" >> >>,
      \*   200 PRINT "C" : RETURN
      \*   10 GOSUB 100:PRINT "A"
      \*   20 END
      \*   100 GOSUB 200 : PRINT "B"
      \*   110 RETURN
      << << "2","0","0"," ","P","R","I","N","T"," ","\"","C","\""," ",":"," ",
            "R","E","T","U","R","N" >>,
         << "1","0"," ","G","O","S","U","B"," ","1","0","0",":","P","R","I",
            "N","T"," ","\"","A","\"" >>,
         << "2","0"," ","E","N","D" >>,
         << "1","0","0"," ","G","O","S","U","B"," ","2","0","0"," ",":"," ",
            "P","R","I","N","T"," ","\"","B","\"" >>,
         << "1","1","0"," ","R","E","T","U","R","N" >> >>,
      \*   10 X=5:GOSUB 100:X=10:GOSUB 100:END
      \*   100 PRINT "X IS";X
      \*   110 RETURN
      << << "1","0"," ","X","=","5",":","G","O","S","U","B"," ","1","0","0",
            ":","X","=","1","0",":","G","O","S","U","B"," ","1","0","0",":",
            "E","N","D" >>,
         << "1","0","0"," ","P","R","I","N","T"," ","\"","X"," ","I","S","\"",
            ";","X" >>,
         << "1","1","0"," ","R","E","T","U","R","N" >> >>,
      \*   10 PRINT "A" : RETURN : PRINT "B"
      << << "1","0"," ","P","R","I","N","T"," ","\"","A","\""," ",":"," ","R",
            "E","T","U","R","N"," ",":"," ","P","R","I","N","T"," ","\"","B",
            "\"" >> >>,
      \*   10 GOSUB 50 : PRINT "A"
      \*   20 PRINT "B"
      << << "1","0"," ","G","O","S","U","B"," ","5","0"," ",":"," ","P","R",
            "I","N","T"," ","\"","A","\"" >>,
         << "2","0"," ","P","R","I","N","T"," ","\"","B","\"" >> >>,
      \*   10 GOSUB 10
      << << "1","0"," ","G","O","S","U","B"," ","1","0" >> >>,
      FileNextJ,
      \*   10 FOR J=1 TO 2 : FOR I=1 TO 2 : C=C+1 : NEXT : NEXT
      \*   20 PRINT C;I;J
      << << "1","0"," ","F","O","R"," ","J","=","1"," ","T","O"," ","2"," ",
            ":"," ","F","O","R"," ","I","=","1"," ","T","O"," ","2"," ",":",
            " ","C","=","C","+","1"," ",":"," ","N","E","X","T"," ",":"," ",
            "N","E","X","T" >>,
         << "2","0"," ","P","R","I","N","T"," ","C",";","I",";","J" >> >>,
      \*   10 FOR K=1 TO 2
      \*   20 FOR J=1 TO 2
      \*   30 FOR I=1 TO 2 : C=C+1
      \*   40 NEXT J : NEXT K
      \*   50 PRINT C
      << << "1","0"," ","F","O","R"," ","K","=","1"," ","T","O"," ","2" >>,
         << "2","0"," ","F","O","R"," ","J","=","1"," ","T","O"," ","2" >>,
         << "3","0"," ","F","O","R"," ","I","=","1"," ","T","O"," ","2"," ",
            ":"," ","C","=","C","+","1" >>,
         << "4","0"," ","N","E","X","T"," ","J"," ",":"," ","N","E","X","T",
            " ","K" >>,
         << "5","0"," ","P","R","I","N","T"," ","C" >> >>,
      \*   10 FOR I=1 TO 3 : FOR I=1 TO 2 : C=C+1 : NEXT I : D=D+1 : NEXT
      << << "1","0"," ","F","O","R"," ","I","=","1"," ","T","O"," ","3"," ",
            ":"," ","F","O","R"," ","I","=","1"," ","T","O"," ","2"," ",":",
            " ","C","=","C","+","1"," ",":"," ","N","E","X","T"," ","I"," ",
            ":"," ","D","=","D","+","1"," ",":"," ","N","E","X","T" >> >>,
      \*   10 FOR INDEX=1 TO 2 : FOR J=5 TO 4 STEP -1 : NEXT : NEXT IN
      << << "1","0"," ","F","O","R"," ","I","N","D","E","X","=","1"," ","T",
            "O"," ","2"," ",":"," ","F","O","R"," ","J","=","5"," ","T","O",
            " ","4"," ","S","T","E","P"," ","-","1"," ",":"," ","N","E","X",
            "T"," ",":"," ","N","E","X","T"," ","I","N" >> >>,
      \*   10 NEXT : PRINT "A"
      << << "1","0"," ","N","E","X","T"," ",":"," ","P","R","I","N","T"," ",
            "\"","A","\"" >> >>,
      \*   10 FOR I=1 TO 2 : NEXT X
      \*   20 PRINT "A"
      << << "1","0"," ","F","O","R"," ","I","=","1"," ","T","O"," ","2"," ",
            ":"," ","N","E","X","T"," ","X" >>,
         << "2","0"," ","P","R","I","N","T"," ","\"","A","\"" >> >>,
      \*   10 IF 0 THEN PRINT "A" : PRINT "B"
      \*   20 PRINT "C"
      << << "1","0"," ","I","F"," ","0"," ","T","H","E","N"," ","P","R","I",
            "N","T"," ","\"","A","\""," ",":"," ","P","R","I","N","T"," ","\"",
            "B","\"" >>,
         << "2","0"," ","P","R","I","N","T"," ","\"","C","\"" >> >>,
      FileIfEmpty,
      \*   10 IF 1 THEN PRINT "A" : PRINT "B"
      \*   20 IF "X" THEN A=A+1:? A
      \*   30 PRINT "C"
      << << "1","0"," ","I","F"," ","1"," ","T","H","E","N"," ","P","R","I",
            "N","T"," ","\"","A","\""," ",":"," ","P","R","I","N","T"," ","\"",
            "B","\"" >>,
         << "2","0"," ","I","F"," ","\"","X","\""," ","T","H","E","N"," ","A",
            "=","A","+","1",":","?"," ","A" >>,
         << "3","0"," ","P","R","I","N","T"," ","\"","C","\"" >> >>,
      \*   10 IF -1 THEN 100 : PRINT "X"
      \*   20 PRINT "N"
      \*   100 PRINT "Y"
      << << "1","0"," ","I","F"," ","-","1"," ","T","H","E","N"," ","1","0",
            "0"," ",":"," ","P","R","I","N","T"," ","\"","X","\"" >>,
         << "2","0"," ","P","R","I","N","T"," ","\"","N","\"" >>,
         << "1","0","0"," ","P","R","I","N","T"," ","\"","Y","\"" >> >>,
      \*   10 A=2 : IF A=2 THEN 50 : PRINT "X"
      \*   20 PRINT "N"
      << << "1","0"," ","A","=","2"," ",":"," ","I","F"," ","A","=","2"," ",
            "T","H","E","N"," ","5","0"," ",":"," ","P","R","I","N","T"," ",
            "\"","X","\"" >>,
         << "2","0"," ","P","R","I","N","T"," ","\"","N","\"" >> >>,
      \*   10 A=3 : IF A=3 THEN PRINT "Y" : GOTO 30
      \*   20 PRINT "N"
      \*   30 IF A PRINT "Z"
      << << "1","0"," ","A","=","3"," ",":"," ","I","F"," ","A","=","3"," ",
            "T","H","E","N"," ","P","R","I","N","T"," ","\"","Y","\""," ",":",
            " ","G","O","T","O"," ","3","0" >>,
         << "2","0"," ","P","R","I","N","T"," ","\"","N","\"" >>,
         << "3","0"," ","I","F"," ","A"," ","P","R","I","N","T"," ","\"","Z",
            "\"" >> >>,
      \*   10 A=A+1 : IF A<3 THEN 10
      \*   15 IF A>=3 THEN
      \*   20 PRINT A
      << << "1","0"," ","A","=","A","+","1"," ",":"," ","I","F"," ","A","<",
            "3"," ","T","H","E","N"," ","1","0" >>,
         << "1","5"," ","I","F"," ","A",">","=","3"," ","T","H","E","N" >>,
         << "2","0"," ","P","R","I","N","T"," ","A" >> >>,
      \*   10 GOTO 30 : PRINT "X"
      \*   20 PRINT "N"
      \*   30 PRINT "Y"
      << << "1","0"," ","G","O","T","O"," ","3","0"," ",":"," ","P","R","I",
            "N","T"," ","\"","X","\"" >>,
         << "2","0"," ","P","R","I","N","T"," ","\"","N","\"" >>,
         << "3","0"," ","P","R","I","N","T"," ","\"","Y","\"" >> >>,
      \*   10 PRINT "A";: GOTO 99 : PRINT "X"
      \*   20 PRINT "N"
      << << "1","0"," ","P","R","I","N","T"," ","\"","A","\"",";",":"," ","G",
            "O","T","O"," ","9","9"," ",":"," ","P","R","I","N","T"," ","\"",
            "X","\"" >>,
         << "2","0"," ","P","R","I","N","T"," ","\"","N","\"" >> >>,
      \*   10 A=A+1 : IF A<3 THEN GOTO 10
      \*   20 PRINT A
      << << "1","0"," ","A","=","A","+","1"," ",":"," ","I","F"," ","A","<",
            "3"," ","T","H","E","N"," ","G","O","T","O"," ","1","0" >>,
         << "2","0"," ","P","R","I","N","T"," ","A" >> >>,
      \*   10 GOSUB 100
      \*   20 END
      \*   100 FOR I=1 TO 2 : GOTO 120
      \*   110 PRINT "N"
      \*   120 NEXT : RETURN
      << << "1","0"," ","G","O","S","U","B"," ","1","0","0" >>,
         << "2","0"," ","E","N","D" >>,
         << "1","0","0"," ","F","O","R"," ","I","=","1"," ","T","O"," ","2",
            " ",":"," ","G","O","T","O"," ","1","2","0" >>,
         << "1","1","0"," ","P","R","I","N","T"," ","\"","N","\"" >>,
         << "1","2","0"," ","N","E","X","T"," ",":"," ","R","E","T","U","R",
            "N" >> >>,
      \*   10 REM HELLO : PRINT "X"
      \*   20 ' C
      \*   
      \*     	
      \*   30 stop : PRINT "Y"
      \*   40 PRINT "Z"
      << << "1","0"," ","R","E","M"," ","H","E","L","L","O"," ",":"," ","P",
            "R","I","N","T"," ","\"","X","\"" >>,
         << "2","0"," ","'"," ","C" >>,
         << >>,
         << " "," ","\t" >>,
         << "3","0"," ","s","t","o","p"," ",":"," ","P","R","I","N","T"," ",
            "\"","Y","\"" >>,
         << "4","0"," ","P","R","I","N","T"," ","\"","Z","\"" >> >>,
      \*   10 PRINT "A" : ! : PRINT "B"
      << << "1","0"," ","P","R","I","N","T"," ","\"","A","\""," ",":"," ","!",
            " ",":"," ","P","R","I","N","T"," ","\"","B","\"" >> >>,
      \*   10 DIM B(1) : B(0)=B(30)+1 : PRINT B(0)
      << << "1","0"," ","D","I","M"," ","B","(","1",")"," ",":"," ","B","(",
            "0",")","=","B","(","3","0",")","+","1"," ",":"," ","P","R","I",
            "N","T"," ","B","(","0",")" >> >>,
      \*   10 PRINT "A"
      \*   PRINT "B"
      << << "1","0"," ","P","R","I","N","T"," ","\"","A","\"" >>,
         << "P","R","I","N","T"," ","\"","B","\"" >> >>,
      \*   10 PRINT "A"
      \*   70000 PRINT "B"
      << << "1","0"," ","P","R","I","N","T"," ","\"","A","\"" >>,
         << "7","0","0","0","0"," ","P","R","I","N","T"," ","\"","B","\"" >> >>,
      \*   10 PRINT "A" : 
      \*   20
      \*   30 : PRINT "B"
      << << "1","0"," ","P","R","I","N","T"," ","\"","A","\""," ",":"," " >>,
         << "2","0" >>,
         << "3","0"," ",":"," ","P","R","I","N","T"," ","\"","B","\"" >> >>,
      \*   30 PRINT X$;"D":DIM Q(3),R$(2)
      \*   10 PRINT "A:B" : X$="C:"+"" : LET Y=2*3
      \*   20 Q(1)=Y:R$(0)="E"  :  ? Q(1);R$(0)
      << << "3","0"," ","P","R","I","N","T"," ","X","$",";","\"","D","\"",":",
            "D","I","M"," ","Q","(","3",")",",","R","$","(","2",")" >>,
         << "1","0"," ","P","R","I","N","T"," ","\"","A",":","B","\""," ",":",
            " ","X","$","=","\"","C",":","\"","+","\"","\""," ",":"," ","L",
            "E","T"," ","Y","=","2","*","3" >>,
         << "2","0"," ","Q","(","1",")","=","Y",":","R","$","(","0",")","=",
            "\"","E","\""," "," ",":"," "," ","?"," ","Q","(","1",")",";","R",
            "$","(","0",")" >> >>,
      \*   10 PRINT "A"*"B" : PRINT "C"
      << << "1","0"," ","P","R","I","N","T"," ","\"","A","\"","*","\"","B",
            "\""," ",":"," ","P","R","I","N","T"," ","\"","C","\"" >> >>,
      \*   10 GOSUB 20 : PRINT "A"
      \*   20 END
      << << "1","0"," ","G","O","S","U","B"," ","2","0"," ",":"," ","P","R",
            "I","N","T"," ","\"","A","\"" >>,
         << "2","0"," ","E","N","D" >> >>,
      \*   10 FOR I = 1 TO 2
      \*   20 PRINT "A"
      << << "1","0"," ","F","O","R"," ","I"," ","="," ","1"," ","T","O"," ",
            "2" >>,
         << "2","0"," ","P","R","I","N","T"," ","\"","A","\"" >> >>,
      \*   10 PRINT "A","A","A","A","A","A","A","ABCDEFG";1234;
      \*   20 PRINT "B"
      << << "1","0"," ","P","R","I","N","T"," ","\"","A","\"",",","\"","A",
            "\"",",","\"","A","\"",",","\"","A","\"",",","\"","A","\"",",",
            "\"","A","\"",",","\"","A","\"",",","\"","A","B","C","D","E","F",
            "G","\"",";","1","2","3","4",";" >>,
         << "2","0"," ","P","R","I","N","T"," ","\"","B","\"" >> >>,
      \*   10 LET A(0) = 1 : PRINT A(12);
      \*   20 LET A(14) = 7 : PRINT A(13);A(14);
      << << "1","0"," ","L","E","T"," ","A","(","0",")"," ","="," ","1"," ",
            ":"," ","P","R","I","N","T"," ","A","(","1","2",")",";" >>,
         << "2","0"," ","L","E","T"," ","A","(","1","4",")"," ","="," ","7",
            " ",":"," ","P","R","I","N","T"," ","A","(","1","3",")",";","A",
            "(","1","4",")",";" >> >>,
      \*   10 LET A$(0) = "X" : PRINT A$(12);"."
      << << "1","0"," ","L","E","T"," ","A","$","(","0",")"," ","="," ","\"",
            "X","\""," ",":"," ","P","R","I","N","T"," ","A","$","(","1","2",
            ")",";","\"",".","\"" >> >>,
      \*   10 LET A(-1) = 5 : PRINT A(0)
      << << "1","0"," ","L","E","T"," ","A","(","-","1",")"," ","="," ","5",
            " ",":"," ","P","R","I","N","T"," ","A","(","0",")" >> >>,
      \*   10 PRINT A(-2)
      << << "1","0"," ","P","R","I","N","T"," ","A","(","-","2",")" >> >>,
      \*   10 DIM A(20) : LET A(15) = 3 : DIM A(5) : PRINT A(15)
      << << "1","0"," ","D","I","M"," ","A","(","2","0",")"," ",":"," ","L",
            "E","T"," ","A","(","1","5",")"," ","="," ","3"," ",":"," ","D",
            "I","M"," ","A","(","5",")"," ",":"," ","P","R","I","N","T"," ",
            "A","(","1","5",")" >> >>,
      \*   10 A=1:A(0)=2:A$="X":A$(0)="Y"
      \*   20 PRINT A;A(0);A$;A$(0)
      \*   30 A$(0)="Z":A=5:A$="W":A(0)=6:PRINT A;A(0);A$;A$(0)
      << << "1","0"," ","A","=","1",":","A","(","0",")","=","2",":","A","$",
            "=","\"","X","\"",":","A","$","(","0",")","=","\"","Y","\"" >>,
         << "2","0"," ","P","R","I","N","T"," ","A",";","A","(","0",")",";",
            "A","$",";","A","$","(","0",")" >>,
         << "3","0"," ","A","$","(","0",")","=","\"","Z","\"",":","A","=","5",
            ":","A","$","=","\"","W","\"",":","A","(","0",")","=","6",":","P",
            "R","I","N","T"," ","A",";","A","(","0",")",";","A","$",";","A",
            "$","(","0",")" >> >>,
      \*   10 LET LONGNAME$ = "X" : PRINT LO$
      << << "1","0"," ","L","E","T"," ","L","O","N","G","N","A","M","E","$",
            " ","="," ","\"","X","\""," ",":"," ","P","R","I","N","T"," ","L",
            "O","$" >> >>,
      \*   10 LET COUNTER = 5 : PRINT CO;count
      << << "1","0"," ","L","E","T"," ","C","O","U","N","T","E","R"," ","=",
            " ","5"," ",":"," ","P","R","I","N","T"," ","C","O",";","c","o",
            "u","n","t" >> >>,
      \*   10 A$="ABCDEFGHABCDEFGHABCDEFGHABCDEFGHABCDEFGHABCDEFGHABCDEFGHABCDEFGH"
      \*   20 A$=A$+A$:PRINT LEN(A$)
      << << "1","0"," ","A","$","=","\"","A","B","C","D","E","F","G","H","A",
            "B","C","D","E","F","G","H","A","B","C","D","E","F","G","H","A",
            "B","C","D","E","F","G","H","A","B","C","D","E","F","G","H","A",
            "B","C","D","E","F","G","H","A","B","C","D","E","F","G","H","A",
            "B","C","D","E","F","G","H","\"" >>,
         << "2","0"," ","A","$","=","A","$","+","A","$",":","P","R","I","N",
            "T"," ","L","E","N","(","A","$",")" >> >>,
      \*   10 FOR I=1 TO 2:FOR I=1 TO 2:FOR I=1 TO 2:FOR I=1 TO 2:FOR I=1 TO 2:FOR I=1 TO 2:FOR I=1 TO 2:FOR I=1 TO 2:FOR I=1 TO 2
      \*   20 FOR I=1 TO 2:FOR I=1 TO 2:FOR I=1 TO 2:FOR I=1 TO 2:FOR I=1 TO 2:FOR I=1 TO 2:FOR I=1 TO 2:FOR I=7 TO 9:PRINT I
      << << "1","0"," ","F","O","R"," ","I","=","1"," ","T","O"," ","2",":",
            "F","O","R"," ","I","=","1"," ","T","O"," ","2",":","F","O","R",
            " ","I","=","1"," ","T","O"," ","2",":","F","O","R"," ","I","=",
            "1"," ","T","O"," ","2",":","F","O","R"," ","I","=","1"," ","T",
            "O"," ","2",":","F","O","R"," ","I","=","1"," ","T","O"," ","2",
            ":","F","O","R"," ","I","=","1"," ","T","O"," ","2",":","F","O",
            "R"," ","I","=","1"," ","T","O"," ","2",":","F","O","R"," ","I",
            "=","1"," ","T","O"," ","2" >>,
         << "2","0"," ","F","O","R"," ","I","=","1"," ","T","O"," ","2",":",
            "F","O","R"," ","I","=","1"," ","T","O"," ","2",":","F","O","R",
            " ","I","=","1"," ","T","O"," ","2",":","F","O","R"," ","I","=",
            "1"," ","T","O"," ","2",":","F","O","R"," ","I","=","1"," ","T",
            "O"," ","2",":","F","O","R"," ","I","=","1"," ","T","O"," ","2",
            ":","F","O","R"," ","I","=","1"," ","T","O"," ","2",":","F","O",
            "R"," ","I","=","7"," ","T","O"," ","9",":","P","R","I","N","T",
            " ","I" >> >>,
      \*   10 FOR I=1 TO 2:GOTO 10
      << << "1","0"," ","F","O","R"," ","I","=","1"," ","T","O"," ","2",":",
            "G","O","T","O"," ","1","0" >> >>,
      \*   10 FOR I=1 TO 2 : DIM I(20) : I(25)=I : NEXT I
      \*   20 PRINT I;I(25)
      << << "1","0"," ","F","O","R"," ","I","=","1"," ","T","O"," ","2"," ",
            ":"," ","D","I","M"," ","I","(","2","0",")"," ",":"," ","I","(",
            "2","5",")","=","I"," ",":"," ","N","E","X","T"," ","I" >>,
         << "2","0"," ","P","R","I","N","T"," ","I",";","I","(","2","5",")" >> >>,
      \*   10 DIM A(2) : A(5)=1 : A(20)=2
      << << "1","0"," ","D","I","M"," ","A","(","2",")"," ",":"," ","A","(",
            "5",")","=","1"," ",":"," ","A","(","2","0",")","=","2" >> >>,
      \*   10 PRINT "A","A","A","A","A","A","A","ABCDEFG";:PRINT 1234,:PRINT "B"
      << << "1","0"," ","P","R","I","N","T"," ","\"","A","\"",",","\"","A",
            "\"",",","\"","A","\"",",","\"","A","\"",",","\"","A","\"",",",
            "\"","A","\"",",","\"","A","\"",",","\"","A","B","C","D","E","F",
            "G","\"",";",":","P","R","I","N","T"," ","1","2","3","4",",",":",
            "P","R","I","N","T"," ","\"","B","\"" >> >>,
      \*   10 PRINT "ABC",:PRINT 123456,:PRINT "ABCDEFGHIJ",:PRINT 7,:PRINT "B"
      << << "1","0"," ","P","R","I","N","T"," ","\"","A","B","C","\"",",",":",
            "P","R","I","N","T"," ","1","2","3","4","5","6",",",":","P","R",
            "I","N","T"," ","\"","A","B","C","D","E","F","G","H","I","J","\"",
            ",",":","P","R","I","N","T"," ","7",",",":","P","R","I","N","T",
            " ","\"","B","\"" >> >>,
      \*   10 GOSUB 100
      \*   20 NEXT
      \*   30 PRINT "E";I
      \*   40 END
      \*   100 FOR I=1 TO 2
      \*   110 PRINT "S";I
      \*   120 RETURN
      << << "1","0"," ","G","O","S","U","B"," ","1","0","0" >>,
         << "2","0"," ","N","E","X","T" >>,
         << "3","0"," ","P","R","I","N","T"," ","\"","E","\"",";","I" >>,
         << "4","0"," ","E","N","D" >>,
         << "1","0","0"," ","F","O","R"," ","I","=","1"," ","T","O"," ","2" >>,
         << "1","1","0"," ","P","R","I","N","T"," ","\"","S","\"",";","I" >>,
         << "1","2","0"," ","R","E","T","U","R","N" >> >>,
      \*   10 A=5:A="X":PRINT A
      << << "1","0"," ","A","=","5",":","A","=","\"","X","\"",":","P","R","I",
            "N","T"," ","A" >> >>,
      \*   10 A$="Y":A$=7:PRINT A$
      << << "1","0"," ","A","$","=","\"","Y","\"",":","A","$","=","7",":","P",
            "R","I","N","T"," ","A","$" >> >>,
      \* a file whose second line fills the buffer of fgets
      << MkLine(10, TextCount),
         MkLine(20, [k \in 1..MAX_LINE_LEN |-> "X"]) >> }
\* the process before load_program reads the first line of a file of files
Start(files) ==
    /\ file \in files
    /\ pc = "load"
    /\ file_pos = 0
    /\ exit_code = -1
    /\ program_lines = << >>
    /\ current_line = 0
    /\ statement_pos = NULL
    /\ halted = 0
    /\ print_col = 0
    /\ vars = << >>
    /\ gosub_stack = << >>
    /\ for_stack = << >>
    /\ last_lookup_num = -1
    /\ last_lookup_idx = -1
    /\ out = << >>
    /\ err = << >>
    /\ comparison = NoComparison
    /\ expression = NoExpression
    /\ lookup = NoLookup
    /\ trace = << >>

Init == Start(GeneratedFiles \cup ForFiles \cup NamedFiles)

\* the same with the file that overfills the store among the files
InitLarge == Start(GeneratedFiles \cup ForFiles \cup NamedFiles \cup {FileTooLarge})

Next ==
    \/ LoadTooLong
    \/ LoadBlank
    \/ LoadMissingNumber
    \/ LoadOutOfRange
    \/ LoadLine
    \/ LoadDone
    \/ RunStart
    \/ EndOfLine
    \/ DoRem
    \/ DoPrint
    \/ DoLet
    \/ DoGoto
    \/ DoGosub
    \/ DoReturn
    \/ DoIf
    \/ DoFor
    \/ DoNext
    \/ DoDim
    \/ DoEnd
    \/ DoUnknown
    \/ RunExit

Spec == Init /\ [][Next]_mvars
SpecLarge == InitLarge /\ [][Next]_mvars


\* the extended interpreter before a call of eval_comparison
InitCompare ==
    /\ file = << >>
    /\ pc = "compare"
    /\ file_pos = 0
    /\ exit_code = -1
    /\ program_lines = << >>
    /\ current_line = 0
    /\ statement_pos = NULL
    /\ halted = 0
    /\ print_col = 0
    /\ vars = << >>
    /\ gosub_stack = << >>
    /\ for_stack = << >>
    /\ last_lookup_num = -1
    /\ last_lookup_idx = -1
    /\ out = << >>
    /\ err = << >>
    \* the two sides are numbers or strings; the text after the left side is
    \* one of the six operators, or none
    /\ \E Operands \in
          {{make_num(n) : n \in -1..2}
              \cup {make_str(t) :
                       t \in {<< >>, << "A" >>, << "B" >>, << "A", "B" >>}}} :
          comparison \in
              [left : Operands, right : Operands,
               op : {<< "=" >>, << "<", ">" >>, << "<" >>, << ">" >>,
                     << "<", "=" >>, << ">", "=" >>, << >>},
               result : {ZeroValue}, done : {0}]
    /\ expression = NoExpression
    /\ lookup = NoLookup
    /\ trace = << >>

SpecCompare == InitCompare /\ [][Compare]_mvars

\* the trees of the expressions: a value, an operator or function applied
Leaf(v) == [fn |-> "value", v |-> v]
Apply(fn, args) == [fn |-> fn, args |-> args, result |-> ZeroValue, done |-> 0]

\* the extended interpreter before a call of eval_or_expr: the expression
\* is a logical one over small integers, or a string one over short strings
InitEvaluate ==
    /\ file = << >>
    /\ pc = "evaluate"
    /\ file_pos = 0
    /\ exit_code = -1
    /\ program_lines = << >>
    /\ current_line = 0
    /\ statement_pos = NULL
    /\ halted = 0
    /\ print_col = 0
    /\ vars = << >>
    /\ gosub_stack = << >>
    /\ for_stack = << >>
    /\ last_lookup_num = -1
    /\ last_lookup_idx = -1
    /\ out = << >>
    /\ err = << >>
    /\ comparison = NoComparison
    /\ lookup = NoLookup
    /\ \E Numbers \in {{Leaf(make_num(n)) : n \in -MaxOperand..MaxOperand}} :
       \E Strings \in
          {{Leaf(make_str(t)) :
              t \in UNION {[1..n -> {"A", "B"}] : n \in 0..MaxChars}}} :
          expression \in
            {Apply(fn, << a, b >>) :
                fn \in {"AND", "OR"}, a \in Numbers, b \in Numbers}
            \cup {Apply("NOT", << a >>) : a \in Numbers}
            \cup {Apply("NOT", << Apply("NOT", << a >>) >>) : a \in Numbers}
            \cup {Apply("+", << Apply("LEFT$", << t, n >>),
                              Apply("MID$",
                                    << t, Apply("+", << n,
                                                Leaf(make_num(1)) >>) >>) >>) :
                    t \in Strings, n \in Numbers}
            \cup {Apply("INSTR", << t, u >>) : t \in Strings, u \in Strings}
            \cup {Apply("MID$", << t, Apply("INSTR", << t, u >>),
                                  Apply("LEN", << u >>) >>) :
                    t \in Strings, u \in Strings}
    /\ trace = << >>

SpecEvaluate == InitEvaluate /\ [][Evaluate]_mvars

\* the interpreter before a call of find_line_index: the store holds lines
\* with some of the numbers 1 .. MaxLookup, sorted, each number once, and
\* nothing has been looked up
InitLookup ==
    /\ file = << >>
    /\ pc = "lookup"
    /\ file_pos = 0
    /\ exit_code = -1
    /\ program_lines \in
          {[i \in 1..Cardinality(S) |->
               [number |-> CHOOSE n \in S : Cardinality({m \in S : m < n}) = i - 1,
                text |-> << >>]] : S \in SUBSET (1..MaxLookup)}
    /\ current_line = 0
    /\ statement_pos = NULL
    /\ halted = 0
    /\ print_col = 0
    /\ vars = << >>
    /\ gosub_stack = << >>
    /\ for_stack = << >>
    /\ last_lookup_num = -1
    /\ last_lookup_idx = -1
    /\ out = << >>
    /\ err = << >>
    /\ comparison = NoComparison
    /\ expression = NoExpression
    /\ lookup = NoLookup
    /\ trace = << >>

SpecLookup == InitLookup /\ [][Lookup]_mvars
(***************************************************************************)
(* Properties of the loader.                                               *)
(***************************************************************************)
\* the physical lines of the file that are not blank, and the line number
\* load_program reads from one
Numbered == {i \in 1..Len(file) : CharAt(file[i], LineStart(file[i])) # NUL}
NumberOf(l) == atoi(l, LineStart(l))

\* the load has ended without exit(1)
Loaded == pc \in {"loaded", "run"}

\* C1: after a successful load the line numbers of the entries
\* program_lines[0 .. line_count-1] increase strictly, whatever the order of
\* the numbered lines of the file and whatever numbers it repeats
C1_StrictlyIncreasing ==
    Loaded =>
        \A i \in 1..(line_count - 1) :
            program_lines[i].number < program_lines[i + 1].number

\* a load of three lines from a file that repeats a number and gives its
\* numbers out of order
C1_Witness ==
    /\ pc = "loaded"
    /\ Len(file) > line_count
    /\ line_count >= 2
    /\ \E i \in Numbered : \E j \in Numbered :
          i < j /\ NumberOf(file[i]) > NumberOf(file[j])

\* the last line of the file that bears the number n
LastWith(n) ==
    CHOOSE k \in Numbered :
        /\ NumberOf(file[k]) = n
        /\ \A j \in Numbered : NumberOf(file[j]) = n => j <= k

\* C2: after a load the store holds exactly one entry for each line number
\* of the file, the text of the entry is that of the last line of the file
\* with the number, and line_count is the number of distinct line numbers
C2_LastDuplicateWins ==
    Loaded =>
        /\ line_count = Cardinality({NumberOf(file[i]) : i \in Numbered})
        /\ \A i \in Numbered :
              /\ Cardinality({e \in 1..line_count :
                    program_lines[e].number = NumberOf(file[i])}) = 1
              /\ \A e \in 1..line_count :
                    program_lines[e].number = NumberOf(file[i]) =>
                        program_lines[e].text
                            = LineText(file[LastWith(NumberOf(file[i]))])

\* a load from a file with two lines of one number and different texts
C2_Witness ==
    /\ pc = "loaded"
    /\ \E i \in Numbered : \E j \in Numbered :
          /\ i < j
          /\ NumberOf(file[i]) = NumberOf(file[j])
          /\ LineText(file[i]) # LineText(file[j])
          /\ \E e \in 1..line_count :
                /\ program_lines[e].number = NumberOf(file[j])
                /\ program_lines[e].text = LineText(file[j])

(***************************************************************************)
(* Properties of the order of execution.  The statements of a line are     *)
(* told apart here by the text alone: a statement ends at the first colon  *)
(* outside a string literal, or at the end of the line.                    *)
(***************************************************************************)
\* the offset of the colon that ends the statement off is in, or of the NUL
RECURSIVE StatementEnd(_, _, _)
StatementEnd(t, off, quoted) ==
    IF off > Len(t) THEN off
    ELSE IF t[off] = "\"" THEN StatementEnd(t, off + 1, ~quoted)
    ELSE IF t[off] = ":" /\ ~quoted THEN off
    ELSE StatementEnd(t, off + 1, quoted)

\* the offset of the first statement of t from off on, 0 when there is none
FirstStatement(t, off) ==
    IF CharAt(t, SkipWhile(t, off, {" ", "\t"})) = NUL THEN 0
    ELSE SkipWhile(t, off, {" ", "\t"})

\* the offset of the statement after the one at off, 0 when it is the last
Following(t, off) ==
    IF StatementEnd(t, off, FALSE) > Len(t) THEN 0
    ELSE FirstStatement(t, StatementEnd(t, off, FALSE) + 1)

\* the places of the statements of line li from the statement at off on
RECURSIVE PlacesFrom(_, _)
PlacesFrom(li, off) ==
    IF off = 0 THEN << >>
    ELSE << Ptr(li, off) >> \o PlacesFrom(li, Following(Text(li), off))

\* the places of the statements of the lines li .. line_count-1
RECURSIVE PlacesOfLines(_)
PlacesOfLines(li) ==
    IF li >= line_count THEN << >>
    ELSE PlacesFrom(li, FirstStatement(Text(li), 1)) \o PlacesOfLines(li + 1)

\* the statements of the program in the order of the text
Expected == PlacesOfLines(0)

\* the places of the statements executed so far
Executed == [k \in 1..Len(trace) |-> Ptr(trace[k].line, trace[k].off)]

\* the keyword execute_statement finds at a place
KeywordAt(place) == Dispatch([Machine(FALSE) EXCEPT !.statement_pos = place]).kw

\* every statement of the program is a LET (with or without the keyword), a
\* PRINT or a DIM
OnlyLetPrintDim ==
    \A k \in 1..Len(Expected) : KeywordAt(Expected[k]) \in {"LET", "PRINT", "DIM"}

\* the last statement executed
Last == trace[Len(trace)]

\* C3: while a program of LET, PRINT and DIM statements alone runs without a
\* runtime error, the statements executed are those of the text, from left
\* to right across the colons of a line and line after line in the order of
\* the store, each statement once; the run ends when current_line reaches
\* line_count, with every statement executed
C3_StraightLineOrder ==
    (pc = "run" /\ err = << >> /\ OnlyLetPrintDim) =>
        /\ Len(Executed) <= Len(Expected)
        /\ Executed = SubSeq(Expected, 1, Len(Executed))
        /\ Running => /\ Len(Executed) < Len(Expected)
                      /\ StatementStart = Expected[Len(Executed) + 1]
        /\ ~Running => /\ Executed = Expected
                       /\ current_line = line_count
                       /\ halted = 0

\* a run to the end of a program of three lines, each of several statements
C3_Witness ==
    /\ pc = "run"
    /\ ~Running
    /\ err = << >>
    /\ OnlyLetPrintDim
    /\ line_count = 3
    /\ Len(trace) >= 7
    /\ \E k \in 1..(Len(trace) - 1) : trace[k].line = trace[k + 1].line
    /\ \E k \in 1..(Len(trace) - 1) : trace[k].line + 1 = trace[k + 1].line

(***************************************************************************)
(* Properties of GOSUB and RETURN.                                         *)
(***************************************************************************)
\* the GOSUB among the statements 1..k of the history that a RETURN executed
\* next answers: RETURNs and GOSUBs pair like brackets; 0 when there is none
RECURSIVE MatchingGosub(_, _)
MatchingGosub(k, depth) ==
    IF k = 0 THEN 0
    ELSE IF trace[k].kw = "RETURN" THEN MatchingGosub(k - 1, depth + 1)
    ELSE IF trace[k].kw = "GOSUB"
    THEN IF depth = 0 THEN k ELSE MatchingGosub(k - 1, depth - 1)
    ELSE MatchingGosub(k - 1, depth)

\* the loop continues behind the statement at offset off of line li: at the
\* statement after it on the line, or with the next line
ContinuesBehind(li, off) ==
    IF Following(Text(li), off) # 0
    THEN /\ current_line' = li
         /\ statement_pos' # NULL
         /\ StatementStart' = Ptr(li, Following(Text(li), off))
    ELSE \/ current_line' = li + 1 /\ statement_pos' = NULL
         \/ current_line' = li /\ statement_pos' # NULL /\ ~AtStatement'

ReturnStep ==
    (Starts("RETURN") /\ gosub_stack # << >>) =>
        /\ MatchingGosub(Len(trace), 0) # 0
        /\ ContinuesBehind(trace[MatchingGosub(Len(trace), 0)].line,
                           trace[MatchingGosub(Len(trace), 0)].off)
        /\ gosub_stack' = SubSeq(gosub_stack, 1, Len(gosub_stack) - 1)
        /\ halted' = 0
        /\ err' = err

\* C4: a RETURN continues behind the most recent GOSUB that has not been
\* returned from (last in, first out): with the statement after that GOSUB
\* on its line, or with the next line when the GOSUB ends its line
C4_ReturnBehindLatestGosub == [][ReturnStep]_mvars

\* a RETURN of a nested subroutine has come back into the outer subroutine,
\* behind a GOSUB that a colon follows
C4_Witness ==
    /\ trace # << >>
    /\ Last.kw = "RETURN"
    /\ halted = 0
    /\ gosub_stack # << >>
    /\ statement_pos # NULL
    /\ current_line # gosub_stack[1].line_index

(***************************************************************************)
(* Properties of FOR and NEXT.                                             *)
(***************************************************************************)
\* the value of the numeric scalar of the one-letter name n1, 0 when the
\* program has not made it
NumberNamed(n1) ==
    IF \E i \in 1..Len(vars) :
          vars[i].name1 = n1 /\ vars[i].name2 = " " /\ vars[i].is_string = 0
    THEN vars[CHOOSE i \in 1..Len(vars) :
                 /\ vars[i].name1 = n1
                 /\ vars[i].name2 = " "
                 /\ vars[i].is_string = 0].scalar.num
    ELSE 0

\* the number of statements of the kind kw executed so far
CountOf(kw) == Cardinality({k \in 1..Len(trace) : trace[k].kw = kw})

\* the number of times FOR v = a TO b runs its body
Iterations(a, b) == IF b - a + 1 > 1 THEN b - a + 1 ELSE 1

\* C5: FOR I = a TO b without STEP runs its body max(1, b - a + 1) times,
\* and leaves I = a + that number behind the loop; C counts the executions
\* of the body, on the line of the FOR and on a line of its own
C5_ForIterations ==
    \A a \in LoopValues : \A b \in LoopValues :
        (/\ pc = "run"
         /\ ~Running
         /\ file \in {ForFileOneLine(a, b), ForFileLines(a, b)}) =>
            /\ err = << >>
            /\ for_stack = << >>
            /\ CountOf("FOR") = 1
            /\ CountOf("LET") = Iterations(a, b)
            /\ CountOf("NEXT") = Iterations(a, b)
            /\ NumberNamed("C") = Iterations(a, b)
            /\ NumberNamed("I") = a + Iterations(a, b)

\* a loop whose limit is below its start has run its body once and ended
C5_Witness ==
    /\ pc = "run"
    /\ ~Running
    /\ \E a \in LoopValues : \E b \in LoopValues :
          /\ b < a
          /\ file = ForFileLines(a, b)
          /\ NumberNamed("C") = 1
          /\ NumberNamed("I") = a + 1
          /\ out # << >>

\* the identifier behind the keyword NEXT of the statement at the cursor, as
\* the two significant characters of a name; << >> when there is none
NextName ==
    IF isalpha(Peek(skip_spaces(AtHandler(FALSE))))
    THEN << uppercase_name(
               read_identifier(skip_spaces(AtHandler(FALSE)), NAMEBUF_SIZE).buf).n1,
            uppercase_name(
               read_identifier(skip_spaces(AtHandler(FALSE)), NAMEBUF_SIZE).buf).n2 >>
    ELSE << >>

\* the name of the variable frame i of the FOR stack steps, from the
\* variable table
FrameVariable(i) ==
    << vars[for_stack[i].var.var].name1, vars[for_stack[i].var.var].name2 >>

\* the frame a NEXT at the cursor is to work on: the top one without a name,
\* else the nearest one from the top whose variable bears the name; 0 when
\* there is none
SelectedFrame ==
    IF NextName = << >> THEN Len(for_stack)
    ELSE IF \E i \in 1..Len(for_stack) : FrameVariable(i) = NextName
    THEN CHOOSE i \in 1..Len(for_stack) :
            /\ FrameVariable(i) = NextName
            /\ \A j \in (i + 1)..Len(for_stack) : FrameVariable(j) # NextName
    ELSE 0

NextStatementStep ==
    Starts("NEXT") =>
        IF SelectedFrame = 0
        THEN /\ halted' = 1
             /\ for_stack' = for_stack
             /\ vars' = vars
        ELSE /\ halted' = 0
             /\ Len(for_stack') \in {SelectedFrame, SelectedFrame - 1}
             /\ \A i \in 1..Len(for_stack') : for_stack'[i] = for_stack[i]
             /\ vars' = [vars EXCEPT
                   ![for_stack[SelectedFrame].var.var].scalar.num =
                       @ + for_stack[SelectedFrame].step]

\* C6: NEXT without a name works on the top frame of the FOR stack; NEXT v
\* works on the nearest frame from the top whose variable is v and drops
\* the frames above it before it steps v; no other variable changes and
\* the frames below the selected one stay as they are
C6_NextSelectsFrame == [][NextStatementStep]_mvars

\* NEXT J with the loop of I inside the loop of J has dropped the frame of I
\* and gone round the loop of J
C6_Witness ==
    /\ file = FileNextJ
    /\ Len(trace) = 4
    /\ Last.kw = "NEXT"
    /\ halted = 0
    /\ Len(for_stack) = 1
    /\ FrameVariable(1) = << "J", " " >>
    /\ NumberNamed("J") = 2
    /\ NumberNamed("I") = 1

(***************************************************************************)
(* Properties of IF and GOTO.                                              *)
(***************************************************************************)
\* the index of the line numbered n in the store, -1 when there is none
IndexOf(n) ==
    IF \E i \in 1..line_count : program_lines[i].number = n
    THEN (CHOOSE i \in 1..line_count : program_lines[i].number = n) - 1
    ELSE 0 - 1

\* the machine behind the condition of the IF at the cursor, and behind the
\* THEN that follows it
BehindCondition == eval_condition(AtHandler(FALSE))
BehindThen == skip_spaces(Adv(skip_spaces(BehindCondition.s), 4))
HasThen == starts_with_kw(skip_spaces(BehindCondition.s), kwd["THEN"])

IfFalseStep ==
    (/\ Starts("IF")
     /\ BehindCondition.v = 0
     /\ BehindCondition.s.halted = 0
     /\ HasThen) =>
        /\ current_line' = current_line + 1
        /\ statement_pos' = NULL
        /\ halted' = 0
        /\ out' = out
        /\ err' = err
        /\ vars' = BehindCondition.s.vars
        /\ gosub_stack' = gosub_stack
        /\ for_stack' = for_stack

\* C7: an IF whose condition is false (the number 0, the empty string, a
\* comparison that does not hold) executes nothing else of its line: the
\* statement behind THEN and the statements behind the colons are skipped
\* and the loop goes on at the start of the next line
C7_FalseIfSkipsLine == [][IfFalseStep]_mvars

\* IF "" THEN PRINT "A" : PRINT "B" has been executed: nothing is printed
\* and the next line is the current one
C7_Witness ==
    /\ file = FileIfEmpty
    /\ Len(trace) = 1
    /\ Last.kw = "IF"
    /\ Last.cond = 0
    /\ halted = 0
    /\ current_line = 1
    /\ statement_pos = NULL
    /\ out = << >>

\* the line number behind the THEN of the IF at the cursor
ThenTarget ==
    atoi(Text(BehindThen.statement_pos.line), BehindThen.statement_pos.off)

\* what GOTO would make of the machine behind the THEN
AsGoto == AfterStatement(statement_goto(Adv(skip_spaces(BehindCondition.s), 4)))

IfGotoStep ==
    (/\ Starts("IF")
     /\ BehindCondition.v = 1
     /\ HasThen
     /\ isdigit(Peek(BehindThen))) =>
        /\ current_line' = AsGoto.current_line
        /\ statement_pos' = AsGoto.statement_pos
        /\ halted' = AsGoto.halted
        /\ print_col' = AsGoto.print_col
        /\ vars' = AsGoto.vars
        /\ gosub_stack' = AsGoto.gosub_stack
        /\ for_stack' = AsGoto.for_stack
        /\ last_lookup_num' = AsGoto.last_lookup_num
        /\ last_lookup_idx' = AsGoto.last_lookup_idx
        /\ out' = AsGoto.out
        /\ err' = AsGoto.err
        /\ IF IndexOf(ThenTarget) >= 0
           THEN /\ current_line' = IndexOf(ThenTarget)
                /\ statement_pos' = NULL
                /\ halted' = BehindCondition.s.halted
           ELSE /\ halted' = 1
                /\ Len(err') = Len(BehindCondition.s.err) + 1
                /\ err'[Len(err')].msg = "Target line not found"

\* C8: an IF whose condition is true and whose THEN is followed by the
\* digits of n leaves the interpreter as GOTO n would: the current line is
\* the index of line n and the cursor is cleared, and the run halts with
\* 'Target line not found' when there is no line n
C8_ThenDigitsIsGoto == [][IfGotoStep]_mvars

\* a true IF with a line number behind THEN has jumped away from its line
C8_Witness ==
    /\ pc = "run"
    /\ trace # << >>
    /\ Last.kw = "IF"
    /\ Last.cond = 1
    /\ halted = 0
    /\ statement_pos = NULL
    /\ current_line # Last.line + 1
    /\ current_line = IndexOf(100)

\* the offset of the first THEN of t from off on outside a string literal,
\* 0 when there is none
RECURSIVE ThenFrom(_, _, _)
ThenFrom(t, off, quoted) ==
    IF off > Len(t) THEN 0
    ELSE IF t[off] = "\"" THEN ThenFrom(t, off + 1, ~quoted)
    ELSE IF /\ ~quoted
            /\ << toupper(CharAt(t, off)), toupper(CharAt(t, off + 1)),
                  toupper(CharAt(t, off + 2)), toupper(CharAt(t, off + 3)) >>
                 = << "T", "H", "E", "N" >>
            /\ CharAt(t, off + 4) \in {NUL, " ", "\t", ":", "("}
    THEN off
    ELSE ThenFrom(t, off + 1, quoted)

\* the offset behind the THEN of the IF at offset off of line li
AfterThen(li, off) ==
    SkipWhile(Text(li), ThenFrom(Text(li), off, FALSE) + 4, {" ", "\t"})

\* statement k of the history is a true IF with a statement behind its THEN
InlineIf(k) ==
    /\ trace[k].kw = "IF"
    /\ trace[k].cond = 1
    /\ ThenFrom(Text(trace[k].line), trace[k].off, FALSE) # 0
    /\ ~isdigit(CharAt(Text(trace[k].line), AfterThen(trace[k].line, trace[k].off)))

\* the statements of the rest of the line of the IF that is statement k
Remainder(k) ==
    PlacesFrom(trace[k].line,
               FirstStatement(Text(trace[k].line),
                              AfterThen(trace[k].line, trace[k].off)))

\* statement j of the history is a LET, a PRINT or a DIM
Plain(j) == trace[j].kw \in {"LET", "PRINT", "DIM"}

\* C9: an IF whose condition is true and whose THEN is not followed by a
\* digit executes the rest of its line: the statement behind THEN and then
\* each statement behind a colon, in the order of the text, and only then
\* the next line (as long as the statements executed are LET, PRINT or DIM,
\* which do not leave the line, and none halts the run)
C9_TrueIfRunsRestOfLine ==
    pc = "run" =>
        \A k \in 1..Len(trace) : InlineIf(k) =>
            \A i \in 1..(Len(Remainder(k)) + 1) :
                (\A j \in 1..(i - 1) : k + j <= Len(trace) /\ Plain(k + j)) =>
                    IF k + i <= Len(trace)
                    THEN IF i <= Len(Remainder(k))
                         THEN Ptr(trace[k + i].line, trace[k + i].off)
                                 = Remainder(k)[i]
                         ELSE /\ trace[k + i].line = trace[k].line + 1
                              /\ trace[k + i].off
                                    = FirstStatement(Text(trace[k].line + 1), 1)
                    ELSE halted = 0 =>
                         IF i <= Len(Remainder(k))
                         THEN Running /\ StatementStart = Remainder(k)[i]
                         ELSE current_line = trace[k].line + 1
                              /\ statement_pos = NULL

\* IF 1 THEN PRINT "A" : PRINT "B" has run both PRINTs and the loop has gone
\* on to the next line
C9_Witness ==
    /\ pc = "run"
    /\ \E k \in 1..Len(trace) :
          /\ InlineIf(k)
          /\ Len(Remainder(k)) >= 2
          /\ k + 3 <= Len(trace)
          /\ trace[k + 1].line = trace[k].line
          /\ trace[k + 2].line = trace[k].line
          /\ trace[k + 3].line = trace[k].line + 1

\* the line number behind the GOTO at the cursor
GotoTarget ==
    atoi(Text(AtHandler(FALSE).statement_pos.line),
         AtHandler(FALSE).statement_pos.off)

GotoStep ==
    Starts("GOTO") =>
        /\ gosub_stack' = gosub_stack
        /\ for_stack' = for_stack
        /\ vars' = vars
        /\ out' = out
        /\ IF IndexOf(GotoTarget) >= 0
           THEN /\ current_line' = IndexOf(GotoTarget)
                /\ statement_pos' = NULL
                /\ StatementStart' =
                      Ptr(IndexOf(GotoTarget),
                          SkipWhile(Text(IndexOf(GotoTarget)), 1, {" ", "\t"}))
                /\ halted' = 0
                /\ err' = err
           ELSE /\ halted' = 1
                /\ ~Running'
                /\ Len(err') = Len(err) + 1
                /\ err'[Len(err')].msg = "Target line not found"

\* C10: GOTO n makes the index of line n the current line and clears the
\* cursor, so that the first statement of line n is the next one executed
\* and the rest of the line of the GOTO is not; the GOSUB stack, the FOR
\* stack and the variables stay as they are; without a line n the run halts
\* with 'Target line not found'
C10_GotoJumps == [][GotoStep]_mvars

\* a GOTO inside a subroutine and inside a FOR loop has jumped over a line
C10_Witness ==
    /\ pc = "run"
    /\ trace # << >>
    /\ Last.kw = "GOTO"
    /\ halted = 0
    /\ gosub_stack # << >>
    /\ for_stack # << >>
    /\ statement_pos = NULL
    /\ current_line = Last.line + 2

(***************************************************************************)
(* Properties of the end of a run.                                         *)
(***************************************************************************)
EndStep ==
    /\ Starts("END") => (halted' = 1 /\ ~Running')
    /\ (trace # << >> /\ Last.kw = "END") =>
          /\ halted' = 1
          /\ trace' = trace
          /\ out' = out
          /\ vars' \in {vars, << >>}

\* C11: END and STOP set the halted flag, and no statement is executed
\* after them: not the statements behind colons on their line, and no
\* statement of a later line
C11_EndStopsRun == [][EndStep]_mvars

\* STOP has been executed with a statement behind it on its line and a line
\* behind its line, and the process has ended
C11_Witness ==
    /\ pc = "exit"
    /\ trace # << >>
    /\ Last.kw = "END"
    /\ file[file_pos][Len(file[file_pos])] = "\""
    /\ \E k \in 1..Len(file[file_pos - 1]) : file[file_pos - 1][k] = ":"
    /\ Last.line = 2

ErrorStep ==
    /\ (pc = "run" /\ err' # err) => (halted' = 1 /\ ~Running')
    /\ (pc = "run" /\ halted = 1) =>
          /\ halted' = 1
          /\ trace' = trace
          /\ err' = err
          /\ out' = out
          /\ pc' = "exit"

\* C12: once runtime_error has been called in a run the halted flag stays
\* set to the end of the run and execute_statement is not called again: the
\* only step left is the end of the process
C12_ErrorIsFinal == [][ErrorStep]_mvars

\* the second of three statements of a line was unknown: the first has
\* printed, the third has not run, and the process has ended
C12_Witness ==
    /\ pc = "exit"
    /\ halted = 1
    /\ Len(trace) = 2
    /\ Last.kw = "UNKNOWN"
    /\ Len(err) = 1
    /\ err[1].msg = "Unknown statement"
    /\ out = << "A", "\n" >>

\* the process has ended after a run in which a statement raised an error
EndedByError ==
    /\ pc = "exit"
    /\ trace # << >>
    /\ halted = 1
    /\ Last.kw # "END"

\* the process has ended after a run that END or STOP ended, or that fell off
\* the last line
EndedNormally ==
    /\ pc = "exit"
    /\ trace # << >>
    /\ (halted = 0 \/ Last.kw = "END")

\* C13: a run that a runtime error ends makes the process end with an exit
\* code other than 0; a run that END or STOP ends, or that falls off the
\* last line, makes it end with the exit code 0
C13_ExitCodeTellsError ==
    /\ EndedByError => exit_code # 0
    /\ EndedNormally => exit_code = 0

\* the file has more distinct line numbers than the store has room for
TooLarge ==
    /\ Len(file) > MAX_LINES
    /\ Cardinality({NumberOf(file[i]) : i \in Numbered}) > MAX_LINES

\* C14: loading a file with more distinct line numbers than MAX_LINES is a
\* load error: the process ends without executing a statement of the program
C14_TooLargeIsLoadError ==
    TooLarge => trace = << >>

(***************************************************************************)
(* Properties of the diagnostics.                                          *)
(***************************************************************************)
\* C15: a run writes at most one diagnostic line, also when one statement
\* has several faults
C15_OneDiagnostic == Len(err) <= 1

\* C16: every runtime error raised by a statement of the line numbered N is
\* reported with the number N, 'Error at line N: ...'; also 'Target line
\* not found' raised by GOTO, GOSUB and IF ... THEN n
C16_ErrorNamesLine ==
    (pc = "run" /\ err # << >>) =>
        \A k \in 1..Len(err) :
            err[k].line = program_lines[Last.line + 1].number

(* Properties of the stacks. *)
\* C17: a run that ends by END or STOP, or by running off the last line,
\* ends with the GOSUB stack and the FOR stack empty (gosub_top = 0 and
\* for_top = 0)
C17_StacksEmptyAtEnd ==
    EndedNormally => (gosub_top = 0 /\ for_top = 0)

(* Properties of the output. *)
\* C18: between two statements the print column is in 0 .. 79, whatever
\* string items, numeric items and ';' or ',' separators PRINT was given
C18_PrintColInWidth == 0 <= print_col /\ print_col < PRINT_WIDTH

(* Properties of the comparisons of the extended interpreter. *)
\* the two sides have one type, so that the relation between them is defined
SameType == comparison.left.type = comparison.right.type

\* the relation the operator op names, between two numbers or two strings
Holds(left, op, right) ==
    LET c == IF left.type = VAL_STR THEN strcmp(left.str, right.str)
             ELSE left.num - right.num
    IN  IF op = << "=" >> THEN c = 0
        ELSE IF op = << "<", ">" >> THEN c # 0
        ELSE IF op = << "<" >> THEN c < 0
        ELSE IF op = << ">" >> THEN c > 0
        ELSE IF op = << "<", "=" >> THEN c <= 0
        ELSE c >= 0

Compared == pc = "compare" /\ comparison.done = 1 /\ comparison.op # << >>

\* C19: each of the six comparison operators yields the number -1 when the
\* relation holds and the number 0 when it does not, and no other value
C19_ComparisonYieldsMinusOneOrZero ==
    Compared =>
        /\ comparison.result.type = VAL_NUM
        /\ comparison.result.num \in {-1, 0}
        /\ SameType =>
              (comparison.result.num = -1 <=>
                  Holds(comparison.left, comparison.op, comparison.right))

BothStrings ==
    comparison.left.type = VAL_STR /\ comparison.right.type = VAL_STR

\* C20: on two strings each of the six operators compares lexicographically
\* and raises no error; an error is raised only when one side is a string
\* and the other a number
C20_StringsCompareWithoutError ==
    Compared =>
        /\ BothStrings =>
              /\ err = << >> /\ halted = 0
              /\ comparison.result.num = -1 <=>
                    Holds(comparison.left, comparison.op, comparison.right)
        /\ err # << >> => ~SameType

(* Properties of the expressions of the extended interpreter. *)
Evaluated(fn) ==
    pc = "evaluate" /\ expression.done = 1 /\ expression.fn = fn

\* the number the i-th operand is, when it is a value
Operand(i) == expression.args[i].v.num

\* bit k of the two's complement form of x, and the bits that tell the
\* operands and results apart
Bit(x, k) == (x \div 2^k) % 2
Bits == 0..5

CbmTruth(b) == IF b THEN -1 ELSE 0

AndOrResult ==
    \A fn \in {"AND", "OR"} :
        Evaluated(fn) =>
            /\ expression.result.type = VAL_NUM
            /\ \A k \in Bits :
                  Bit(expression.result.num, k) =
                     IF fn = "AND"
                     THEN Bit(Operand(1), k) * Bit(Operand(2), k)
                     ELSE IF Bit(Operand(1), k) + Bit(Operand(2), k) > 0
                          THEN 1 ELSE 0
            /\ (Operand(1) \in {-1, 0} /\ Operand(2) \in {-1, 0}) =>
                  expression.result.num =
                     IF fn = "AND"
                     THEN CbmTruth(Operand(1) = -1 /\ Operand(2) = -1)
                     ELSE CbmTruth(Operand(1) = -1 \/ Operand(2) = -1)
            /\ (fn = "AND" /\ Operand(1) = 5 /\ Operand(2) = 3) =>
                  expression.result.num = 1
            /\ (fn = "OR" /\ Operand(1) = 5 /\ Operand(2) = 2) =>
                  expression.result.num = 7

NotResult ==
    Evaluated("NOT") =>
        IF expression.args[1].fn = "value"
        THEN /\ \A k \in Bits :
                   Bit(expression.result.num, k) = 1 - Bit(Operand(1), k)
             /\ Operand(1) \in {-1, 0} =>
                   expression.result.num = CbmTruth(Operand(1) = 0)
        ELSE expression.result.num = expression.args[1].args[1].v.num

\* C21: on operands in {-1, 0} AND, OR and NOT give the logical conjunction,
\* disjunction and negation, again in {-1, 0}; on other integers they give
\* the bitwise and, or and complement (5 AND 3 = 1, 5 OR 2 = 7, NOT(0) = -1,
\* NOT(NOT(x)) = x)
C21_LogicalOperators == AndOrResult /\ NotResult /\ halted = 0

C21_Witness ==
    /\ Evaluated("AND")
    /\ Operand(1) = 5 /\ Operand(2) = 3
    /\ expression.result.num = 1

\* the expression LEFT$(s, n) + MID$(s, n + 1) has been evaluated
LeftPlusMid == Evaluated("+") /\ expression.args[1].fn = "LEFT$"
LeftString == expression.args[1].args[1].v.str
LeftCount == expression.args[1].args[2].v.num

\* C22: for every string s and every n with 0 <= n <= LEN(s),
\* LEFT$(s, n) + MID$(s, n + 1) is s
C22_LeftPlusMidIsWhole ==
    (LeftPlusMid /\ 0 <= LeftCount /\ LeftCount <= Len(LeftString)) =>
        /\ expression.result.type = VAL_STR
        /\ expression.result.str = LeftString
        /\ err = << >>

C22_Witness ==
    /\ LeftPlusMid
    /\ LeftString = << "A", "B", "A" >>
    /\ LeftCount = 1
    /\ expression.result.str = << "A", "B", "A" >>

\* the needle occurs in the hay at the 1-based position k
OccursAt(hay, needle, k) ==
    /\ k >= 1 /\ k + Len(needle) - 1 <= Len(hay)
    /\ \A i \in 1..Len(needle) : hay[k + i - 1] = needle[i]
Occurs(hay, needle) == \E k \in 1..(Len(hay) + 1) : OccursAt(hay, needle, k)

\* INSTR(s, t) has been evaluated, alone or as the start of
\* MID$(s, INSTR(s, t), LEN(t))
InstrAlone == Evaluated("INSTR")
MidOfInstr == Evaluated("MID$") /\ expression.args[2].fn = "INSTR"
Hay == expression.args[1].v.str
Needle ==
    IF expression.fn = "INSTR" THEN expression.args[2].v.str
    ELSE expression.args[2].args[2].v.str

\* C23: INSTR(s, t) > 0 exactly when t occurs in s and is 0 otherwise; when
\* INSTR(s, t) = k > 0, k is the 1-based position of the first occurrence
\* and MID$(s, k, LEN(t)) = t
C23_InstrFindsFirst ==
    /\ InstrAlone =>
          /\ expression.result.type = VAL_NUM
          /\ expression.result.num >= 0
          /\ expression.result.num > 0 <=> Occurs(Hay, Needle)
          /\ expression.result.num > 0 =>
                /\ OccursAt(Hay, Needle, expression.result.num)
                /\ \A k \in 1..(expression.result.num - 1) :
                      ~OccursAt(Hay, Needle, k)
          /\ err = << >>
    /\ (MidOfInstr /\ Occurs(Hay, Needle)) =>
          /\ expression.result.type = VAL_STR
          /\ expression.result.str = Needle
          /\ err = << >>

C23_Witness ==
    /\ InstrAlone
    /\ Hay = << "A", "B", "B" >>
    /\ Needle = << "B" >>
    /\ expression.result.num = 2

(* Properties of the variables. *)
\* what a reference reads from the stored value e of a variable that is a
\* string one (is_string = 1) or a numeric one
ReadsAs(is_string, e) ==
    IF is_string = 1 THEN (IF e.type = VAL_STR THEN e.str ELSE << >>)
    ELSE (IF e.type = VAL_NUM THEN e.num ELSE 0)

\* the text of the line of the statement at the cursor, and the offsets of
\* the name an assignment there starts with and of the character behind it
TargetLine == Text(StatementStart.line)
TargetStart == skip_spaces(AtHandler(FALSE)).statement_pos.off
TargetEnd == SkipWhile(TargetLine, TargetStart, IdentChars)

\* the store the assignment at the cursor names: its first letter, whether
\* the name ends with '$', and whether a subscript follows
Target ==
    [name1 |-> toupper(CharAt(TargetLine, TargetStart)),
     is_string |-> IF CharAt(TargetLine, TargetEnd - 1) = "$" THEN 1 ELSE 0,
     is_array |-> IF CharAt(TargetLine,
                            SkipWhile(TargetLine, TargetEnd, {" ", "\t"})) = "("
                  THEN 1 ELSE 0]

\* the offset behind the '(' that follows the name at the cursor, and the
\* subscript written there
SubscriptStart == SkipWhile(TargetLine, TargetEnd, {" ", "\t"}) + 1
Subscript == atoi(TargetLine, SubscriptStart)

\* in this step the array of the existing variable i grows
Grows(i) ==
    /\ i <= Len(vars) /\ i <= Len(vars')
    /\ vars[i].is_array = 1
    /\ vars'[i].size > vars[i].size

\* the elements added are those behind the old size; a LET may have
\* assigned one of them, the one its reference names with the subscript
\* written there
GrowStep ==
    \A i \in 1..Len(vars) :
        Grows(i) =>
            \A k \in (vars[i].size + 1)..vars'[i].size :
                \/ /\ Keyword = "LET" /\ Target.is_array = 1
                   /\ isdigit(CharAt(TargetLine, SubscriptStart))
                   /\ k = Subscript + 1
                \/ ReadsAs(vars[i].is_string, vars'[i].array[k]) =
                      IF vars[i].is_string = 1 THEN << >> ELSE 0

NegativeSubscript(k) ==
    \E j \in trace[k].off..(StatementEnd(Text(trace[k].line), trace[k].off,
                                         FALSE) - 2) :
        /\ Text(trace[k].line)[j] = "("
        /\ Text(trace[k].line)[j + 1] = "-"

\* C25: an array reference with a negative subscript raises 'Negative array
\* index' and accesses no element
C25_NegativeSubscriptIsError ==
    (pc = "run" /\ trace # << >> /\ NegativeSubscript(Len(trace))) =>
        /\ halted = 1
        /\ err # << >> /\ err[Len(err)].msg = "Negative array index"
        /\ vars = << >>

\* in a step of the run every variable keeps its place, an array keeps at
\* least its elements' count, and a DIM that does not enlarge an array
\* leaves its elements as they are
SizeStep ==
    (pc = "run" /\ pc' = "run") =>
        /\ Len(vars') >= Len(vars)
        /\ \A i \in 1..Len(vars) :
              /\ vars'[i].size >= vars[i].size
              /\ (Keyword = "DIM" /\ vars[i].is_array = 1
                     /\ vars'[i].size = vars[i].size) =>
                    vars'[i].array = vars[i].array

\* C26: the element count of an array never decreases, over DIM statements
\* and subscripted references; a DIM with a size below the current one
\* leaves the size and the contents unchanged
C26_ArraysNeverShrink == [][SizeStep]_mvars

\* after DIM A(20), A(15) = 3 and DIM A(5), PRINT A(15) has printed 3
C26_Witness ==
    /\ Len(trace) = 4 /\ Last.kw = "PRINT" /\ trace[3].kw = "DIM"
    /\ Len(vars) = 1 /\ vars[1].size = 21
    /\ out = << "3", "\n" >>

\* the stores of the one-letter name name1, and the indices read of arrays
Stores == [name1 : {"A"}, is_string : {0, 1}, is_array : {0, 1}]
Indices == 0..2

\* what the variables vs give when element k of the store st is read (the
\* scalar when st is no array): the default when there is no such variable
\* or element
ReadFrom(vs, st, k) ==
    LET hit == {i \in 1..Len(vs) :
                   /\ vs[i].name1 = st.name1 /\ vs[i].name2 = " "
                   /\ vs[i].is_string = st.is_string}
        v == vs[CHOOSE i \in hit : TRUE]
    IN  IF hit = {} THEN ReadsAs(st.is_string, ZeroValue)
        ELSE IF st.is_array = 0 THEN ReadsAs(st.is_string, v.scalar)
        ELSE IF v.is_array = 0 \/ k >= v.size
        THEN ReadsAs(st.is_string, ZeroValue)
        ELSE ReadsAs(st.is_string, v.array[k + 1])

AssignStep ==
    (Starts("LET") /\ pc' = "run") =>
        \A st \in Stores : \A k \in Indices :
            st # Target => ReadFrom(vars', st, k) = ReadFrom(vars, st, k)

\* C27: the scalar A, the array A(), the string scalar A$ and the string
\* array A$() are four stores: an assignment to one of them never changes
\* the value read from any of the other three
C27_FourStores == [][AssignStep]_mvars

\* each of the four stores has been assigned, and PRINT shows the four values
C27_Witness ==
    /\ Len(trace) = 5 /\ Last.kw = "PRINT"
    /\ out = << "1", "2", "X", "Y", "\n" >>

\* the second significant character of the name at the cursor
TargetName2 ==
    IF TargetEnd - TargetStart - Target.is_string > 1
    THEN toupper(CharAt(TargetLine, TargetStart + 1)) ELSE " "

\* the statement at the cursor assigns to a scalar: a name, then '='
ScalarAssignment ==
    /\ Starts("LET")
    /\ Target.is_array = 0
    /\ CharAt(TargetLine, SkipWhile(TargetLine, TargetEnd, {" ", "\t"})) = "="

NameStep ==
    ScalarAssignment =>
        /\ \E i \in 1..Len(vars') :
              /\ vars'[i].name1 = Target.name1
              /\ vars'[i].name2 = TargetName2
              /\ vars'[i].is_string = Target.is_string
        /\ \A k \in (Len(err) + 1)..Len(err') : err'[k].msg # "Expected '='"

\* C28: a name of any length is consumed whole and refers to the variable
\* keyed by its first two characters, case-insensitively, and by its
\* trailing '$'
C28_NameKeyedByTwoCharacters == [][NameStep]_mvars

(* Properties of the strings. *)
\* the values the variables hold
Held ==
    {vars[i].scalar : i \in 1..Len(vars)}
        \cup UNION {{vars[i].array[k] : k \in 1..Len(vars[i].array)} :
                       i \in 1..Len(vars)}

\* the text of the statement at the cursor, without its blanks
RECURSIVE Unspaced(_)
Unspaced(t) ==
    IF t = << >> THEN << >>
    ELSE IF t[1] \in {" ", "\t"} THEN Unspaced(Tail(t))
    ELSE << t[1] >> \o Unspaced(Tail(t))
StatementText ==
    Unspaced(SubSeq(TargetLine, TargetStart,
                    StatementEnd(TargetLine, TargetStart, FALSE) - 1))
TargetName == SubSeq(TargetLine, TargetStart, TargetEnd - 1)

\* the statement at the cursor is N$ = N$ + N$ for a string scalar N$
Doubling ==
    /\ Starts("LET")
    /\ Target.is_string = 1
    /\ StatementText =
          TargetName \o << "=" >> \o TargetName \o << "+" >> \o TargetName

\* the first n characters of t
Prefix(t, n) == IF Len(t) > n THEN SubSeq(t, 1, n) ELSE t

DoublingStep ==
    Doubling =>
        /\ err' = err
        /\ ReadFrom(vars', [Target EXCEPT !.is_array = 0], 0) =
              Prefix(ReadFrom(vars, [Target EXCEPT !.is_array = 0], 0)
                        \o ReadFrom(vars, [Target EXCEPT !.is_array = 0], 0),
                     MAX_STR_LEN - 1)

\* C29: every string a variable holds has at most MAX_STR_LEN - 1
\* characters; s + t yields the first MAX_STR_LEN - 1 characters of the
\* concatenation, and raises no error when the concatenation is longer
C29_StringsBounded ==
    /\ [](\A v \in Held : Len(v.str) <= MAX_STR_LEN - 1)
    /\ [][DoublingStep]_mvars

\* A$, of 64 characters, has been doubled: it holds 127 characters
C29_Witness ==
    /\ trace # << >> /\ Last.kw = "LET" /\ err = << >>
    /\ \E v \in Held : Len(v.str) = MAX_STR_LEN - 1


(* Properties of the subroutine stack. *)
\* the file is the one line 10 GOSUB 10
GosubSelf ==
    file = << << "1", "0", " ", "G", "O", "S", "U", "B", " ", "1", "0" >> >>

\* the file is the one line 10 FOR I=1 TO 2:GOTO 10
ForSelf ==
    file = << << "1", "0", " ", "F", "O", "R", " ", "I", "=", "1", " ", "T",
                 "O", " ", "2", ":", "G", "O", "T", "O", " ", "1", "0" >> >>

\* the interpreter as a process that keeps running: main is one sequential
\* thread, so a step it can take is taken. The file never changes, so the
\* fairness of Next on the runs of a given file is no more than that of Next
SpecLive ==
    Init /\ [][Next]_mvars /\ WF_mvars((GosubSelf \/ ForSelf) /\ Next)

\* the run has ended on the error of a full stack, raised once, at line 10
OverflowHalted ==
    /\ pc = "exit" /\ halted = 1
    /\ err = << [line |-> 10, msg |-> "GOSUB stack overflow"] >>

\* a GOSUB that finds the stack at capacity reports the overflow and halts,
\* pushes no frame and leaves the cursor where it is
OverflowStep ==
    (Starts("GOSUB") /\ gosub_top >= MAX_GOSUB) =>
        /\ gosub_stack' = gosub_stack
        /\ current_line' = current_line
        /\ halted' = 1
        /\ err' = Append(err, [line |-> program_lines[current_line + 1].number,
                               msg |-> "GOSUB stack overflow"])

\* a GOSUB that finds room pushes one frame, which names the line it is on
PushStep ==
    (Starts("GOSUB") /\ gosub_top < MAX_GOSUB) =>
        /\ gosub_top' = gosub_top + 1
        /\ SubSeq(gosub_stack', 1, gosub_top) = gosub_stack
        /\ gosub_stack'[gosub_top'].line_index = current_line

\* C30: the program 10 GOSUB 10, which keeps executing GOSUB without a
\* RETURN, eventually halts with 'GOSUB stack overflow'; the stack never
\* holds more than MAX_GOSUB frames, and the GOSUB that finds it at capacity
\* pushes no frame and does not jump
C30_GosubOverflowHalts ==
    /\ (GosubSelf ~> (GosubSelf /\ OverflowHalted))
    /\ [](gosub_top <= MAX_GOSUB)
    /\ [][OverflowStep /\ PushStep]_mvars

\* 10 GOSUB 10 has run its 33 statements: 32 frames and the overflow
C30_Witness ==
    /\ GosubSelf /\ OverflowHalted
    /\ Len(trace) = MAX_GOSUB + 1 /\ Last.kw = "GOSUB"
    /\ gosub_top = MAX_GOSUB

(* The subroutine scenario. *)
\* the file is 10 X=5:GOSUB 100:X=10:GOSUB 100:END / 100 PRINT "X IS";X /
\* 110 RETURN
XIsProgram ==
    file = << << "1","0"," ","X","=","5",":","G","O","S","U","B"," ","1","0",
                 "0",":","X","=","1","0",":","G","O","S","U","B"," ","1","0",
                 "0",":","E","N","D" >>,
              << "1","0","0"," ","P","R","I","N","T"," ","\"","X"," ","I","S",
                 "\"",";","X" >>,
              << "1","1","0"," ","R","E","T","U","R","N" >> >>

\* the run has ended on END without a diagnostic
HaltedOnEnd ==
    /\ pc = "exit" /\ halted = 1 /\ err = << >>
    /\ trace # << >> /\ Last.kw = "END"

\* the output with a space between the text and the number
XIsSpaced ==
    << "X"," ","I","S"," ","5","\n","X"," ","I","S"," ","1","0","\n" >>

\* the output with the number right behind the text, as %g writes it
XIsPlain ==
    << "X"," ","I","S","5","\n","X"," ","I","S","1","0","\n" >>

\* u is what t starts with
IsPrefix(u, t) == Len(u) <= Len(t) /\ SubSeq(t, 1, Len(u)) = u

\* C31 as stated: the subroutine program writes 'X IS 5\nX IS 10\n' and
\* then halts
C31_XIsSpacedOutput ==
    (XIsProgram /\ pc = "exit") => (out = XIsSpaced /\ HaltedOnEnd)

\* C31: the subroutine program writes exactly 'X IS5\nX IS10\n' to standard
\* output, nothing else at any point of its run, and then halts on END
C31_XIsPlainOutput ==
    XIsProgram =>
        /\ IsPrefix(out, XIsPlain)
        /\ pc = "exit" => (out = XIsPlain /\ HaltedOnEnd)

\* the run of the subroutine program has ended, after its nine statements
C31_Witness ==
    /\ XIsProgram /\ pc = "exit" /\ Len(trace) = 9
    /\ out = XIsPlain

(* Properties of the loop stack. *)
\* a FOR that finds the stack at capacity reports the overflow and halts,
\* pushes no frame and assigns no variable
ForOverflowStep ==
    (Starts("FOR") /\ for_top >= MAX_FOR) =>
        /\ for_stack' = for_stack
        /\ vars' = vars
        /\ halted' = 1
        /\ err' = Append(err, [line |-> program_lines[current_line + 1].number,
                               msg |-> "FOR stack overflow"])

\* C32: gosub_top stays in 0 .. MAX_GOSUB and for_top in 0 .. MAX_FOR; a FOR
\* executed while the FOR stack is full raises 'FOR stack overflow', pushes
\* no frame and does not assign the loop variable
C32_StacksBounded ==
    /\ [](/\ 0 <= gosub_top /\ gosub_top <= MAX_GOSUB
          /\ 0 <= for_top /\ for_top <= MAX_FOR)
    /\ [][ForOverflowStep]_mvars

\* the seventeenth FOR of a line of FOR statements, FOR I=7 TO 9, has met
\* the full stack: I is still 1
C32_Witness ==
    /\ Len(trace) = MAX_FOR + 1 /\ Last.kw = "FOR"
    /\ for_top = MAX_FOR /\ halted = 1
    /\ err # << >> /\ err[Len(err)].msg = "FOR stack overflow"
    /\ Len(vars) = 1 /\ vars[1].scalar.num = 1
    /\ for_stack[MAX_FOR].end_value = 2

\* the statement at the cursor raises msg, as the one diagnostic of the step
Raises(msg) ==
    /\ halted' = 1
    /\ err' = Append(err, [line |-> program_lines[current_line + 1].number,
                           msg |-> msg])

\* the step leaves both stacks, the current line and the variables alone
StacksAndStoreKept ==
    /\ gosub_stack' = gosub_stack
    /\ for_stack' = for_stack
    /\ current_line' = current_line
    /\ vars' = vars

UnderflowStep ==
    /\ (Starts("RETURN") /\ gosub_top = 0) =>
          (Raises("RETURN without GOSUB") /\ StacksAndStoreKept)
    /\ (Starts("NEXT") /\ SelectedFrame = 0) =>
          (Raises("NEXT without FOR") /\ StacksAndStoreKept)

\* C33: a RETURN with an empty GOSUB stack raises 'RETURN without GOSUB' and
\* a NEXT with no matching FOR frame raises 'NEXT without FOR'; either
\* leaves gosub_top, for_top, the frames of both stacks, current_line and
\* every variable as they were
C33_UnderflowChangesNothing == [][UnderflowStep]_mvars

\* NEXT X inside the loop of I has raised the error: the frame of I is still
\* on the stack and I still holds 1
C33_Witness ==
    /\ Len(trace) = 2 /\ Last.kw = "NEXT" /\ halted = 1
    /\ err = << [line |-> 10, msg |-> "NEXT without FOR"] >>
    /\ for_top = 1 /\ FrameVariable(1) = << "I", " " >>
    /\ NumberNamed("I") = 1

\* frame fr of the FOR stack refers to the scalar slot of a numeric variable
\* of the table, and that variable bears the name the frame records
RefersToNamedScalar(fr) ==
    /\ fr.var # NULLREF
    /\ fr.var.elem < 0
    /\ fr.var.var \in 1..Len(vars)
    /\ vars[fr.var.var].is_string = 0
    /\ vars[fr.var.var].name1 = fr.name1
    /\ vars[fr.var.var].name2 = fr.name2

\* the frames of both stacks name lines of the store
FramesNameLines ==
    /\ \A i \in 1..for_top :
          0 <= for_stack[i].line_index /\ for_stack[i].line_index < line_count
    /\ \A i \in 1..gosub_top :
          0 <= gosub_stack[i].line_index /\ gosub_stack[i].line_index < line_count

\* no statement moves or frees a slot of the variable table: the table only
\* grows at its end, and a slot keeps its name and kind
SlotStep ==
    (pc = "run" /\ pc' = "run") =>
        /\ Len(vars') >= Len(vars)
        /\ \A i \in 1..Len(vars) :
              /\ vars'[i].name1 = vars[i].name1
              /\ vars'[i].name2 = vars[i].name2
              /\ vars'[i].is_string = vars[i].is_string

\* C34: while the program runs, every frame of the FOR stack refers to the
\* scalar slot of the numeric variable whose name the frame records, no
\* statement moves or frees a slot (a DIM or a growth of the array of the
\* same name included), and every FOR frame and GOSUB frame names a line
\* index in 0 .. line_count - 1
C34_FramesStayValid ==
    /\ [](pc = "run" =>
            /\ \A i \in 1..for_top : RefersToNamedScalar(for_stack[i])
            /\ FramesNameLines)
    /\ [][SlotStep]_mvars

\* inside the loop of I, DIM I(20) has made the array and I(25) = I has
\* grown it; NEXT I has then stepped I through the frame
C34_Witness ==
    /\ pc = "run" /\ Len(trace) = 4 /\ Last.kw = "NEXT"
    /\ trace[2].kw = "DIM" /\ for_top = 1
    /\ RefersToNamedScalar(for_stack[1])
    /\ vars[for_stack[1].var.var].is_array = 1
    /\ vars[for_stack[1].var.var].size = 26
    /\ vars[for_stack[1].var.var].scalar.num = 2

(* Properties of the lookup of lines. *)
\* the store is sorted by number, each number once
SortedUnique ==
    \A i \in 1..line_count : \A j \in 1..line_count :
        (i < j) => (program_lines[i].number < program_lines[j].number)

\* the linear scan of the store for the number n: the index of the line
\* that bears it, -1 when no line does
LinearScan(n) ==
    IF \E i \in 0..(line_count - 1) : program_lines[i + 1].number = n
    THEN CHOOSE i \in 0..(line_count - 1) : program_lines[i + 1].number = n
    ELSE 0 - 1

\* C35: on a sorted store with unique line numbers, after any sequence of
\* lookups, find_line_index has returned what a linear scan of the store
\* returns for the number, and would return it for every number it may be
\* given next
C35_LookupIsLinearScan ==
    SortedUnique =>
        /\ lookup.idx = LinearScan(lookup.number)
        /\ \A n \in (0 - 1)..(MaxLookup + 1) :
              find_line_index(Machine(FALSE), n).idx = LinearScan(n)

\* a lookup answered from the cache: the number looked up is the number of
\* the cache, of a line that is not the first of a store of several lines
C35_Witness ==
    /\ pc = "lookup" /\ line_count >= 3
    /\ lookup.number = last_lookup_num /\ lookup.idx = last_lookup_idx
    /\ lookup.idx >= 1
    /\ program_lines[lookup.idx + 1].number = lookup.number

(* Properties of the sizes of arrays. *)
\* the statement at the cursor, a LET or a DIM, has one subscripted
\* reference, that of its target, and the subscript is a number written out
OneSubscript ==
    /\ Starts("LET") \/ Starts("DIM")
    /\ Target.is_array = 1
    /\ Cardinality({k \in 1..Len(StatementText) : StatementText[k] = "("}) = 1
    /\ isdigit(CharAt(TargetLine, SubscriptStart))
    /\ CharAt(TargetLine, SkipDigits(TargetLine, SubscriptStart)) = ")"

\* the number of elements of the array of the target among the variables
\* vs, 0 when the variable has no array
TargetSize(vs) ==
    LET hit == {i \in 1..Len(vs) :
                   /\ vs[i].name1 = Target.name1
                   /\ vs[i].name2 = TargetName2
                   /\ vs[i].is_string = Target.is_string
                   /\ vs[i].is_array = 1}
    IN  IF hit = {} THEN 0 ELSE vs[CHOOSE i \in hit : TRUE].size

ArraySizeStep ==
    OneSubscript =>
        IF TargetSize(vars) = 0
        THEN TargetSize(vars') =
                IF Keyword = "DIM" \/ Subscript + 1 > DEFAULT_ARRAY_SIZE
                THEN Subscript + 1 ELSE DEFAULT_ARRAY_SIZE
        ELSE (Keyword = "LET" /\ Subscript >= TargetSize(vars)) =>
                TargetSize(vars') = Subscript + 1

\* C36: the first array use of a variable with subscript i allocates
\* max(i + 1, 11) elements, DIM name(n) on a variable without an array
\* allocates n + 1 elements, and a later reference with a subscript i at or
\* above the current size grows the array to exactly i + 1 elements
C36_ArraySizes == [][ArraySizeStep]_mvars

(* Properties of the ',' of PRINT. *)
\* the text of the statement at the cursor behind its keyword, as written
RawText ==
    SubSeq(TargetLine, TargetStart,
           StatementEnd(TargetLine, TargetStart, FALSE) - 1)

\* the statement at the cursor is a PRINT whose last item is followed by ','
EndsWithComma ==
    /\ Starts("PRINT")
    /\ RawText # << >>
    /\ RawText[Len(RawText)] = ","

\* the statement is PRINT "text", or PRINT digits, without blanks: the one
\* item takes ItemWidth columns
OneItem ==
    /\ EndsWithComma
    /\ Len(RawText) >= 2
    /\ \/ /\ Len(RawText) >= 3
          /\ RawText[1] = "\"" /\ RawText[Len(RawText) - 1] = "\""
          /\ \A k \in 2..(Len(RawText) - 2) : RawText[k] # "\""
       \/ /\ \A k \in 1..(Len(RawText) - 1) : isdigit(RawText[k])
          /\ Len(RawText) = 2 \/ RawText[1] # "0"
ItemWidth == IF RawText[1] = "\"" THEN Len(RawText) - 3 ELSE Len(RawText) - 1

\* the column the ',' leaves behind an item that ended in column col
NextZone(col) ==
    IF ((col \div 10) + 1) * 10 >= PRINT_WIDTH THEN 0
    ELSE ((col \div 10) + 1) * 10

CommaStep ==
    (EndsWithComma /\ err' = err) =>
        /\ print_col' % 10 = 0
        /\ (OneItem /\ print_col + ItemWidth < PRINT_WIDTH) =>
              print_col' = NextZone(print_col + ItemWidth)

\* C37: behind a PRINT item followed by ',' the print column is the next
\* multiple of 10 above the column reached after the item, 0 when that
\* multiple is 80; it is a multiple of 10 for a string item and for a
\* numeric item
C37_CommaReachesZone == [][CommaStep]_mvars

(* Properties of FOR entered again. *)
\* a FOR that raises nothing pushes one frame over the frames there are
ForPushStep ==
    (Starts("FOR") /\ err' = err) =>
        /\ for_top' = for_top + 1
        /\ SubSeq(for_stack', 1, for_top) = for_stack

\* the run has ended on the error of a full FOR stack, raised once, at
\* line 10
ForOverflowHalted ==
    /\ pc = "exit" /\ halted = 1
    /\ err = << [line |-> 10, msg |-> "FOR stack overflow"] >>

\* C38: every FOR that succeeds increases for_top by exactly one and leaves
\* the frames below as they are, a frame of the same loop variable
\* included; the program 10 FOR I=1 TO 2:GOTO 10, which enters the same FOR
\* again and again without completing the loop, eventually halts with
\* 'FOR stack overflow'
C38_ForAlwaysPushes ==
    /\ [][ForPushStep]_mvars
    /\ (ForSelf ~> (ForSelf /\ ForOverflowHalted))

\* 10 FOR I=1 TO 2:GOTO 10 has ended: sixteen frames of I on the stack, the
\* seventeenth FOR refused
C38_Witness ==
    /\ ForSelf /\ ForOverflowHalted
    /\ Len(trace) = 2 * MAX_FOR + 1 /\ Last.kw = "FOR"
    /\ for_top = MAX_FOR
    /\ \A i \in 1..for_top :
          for_stack[i].name1 = "I" /\ for_stack[i].var = for_stack[1].var

(* The two stacks are apart. *)
StackFrameStep ==
    /\ (Starts("GOSUB") \/ Starts("RETURN") \/ Starts("GOTO")) =>
          for_stack' = for_stack
    /\ (Starts("FOR") \/ Starts("NEXT")) => gosub_stack' = gosub_stack

\* C39: GOSUB, RETURN and GOTO never change the FOR stack, and FOR and NEXT
\* never change the GOSUB stack; the frame of a FOR inside a subroutine is
\* on the FOR stack after the RETURN, and a later NEXT goes on inside the
\* loop of the subroutine
C39_StacksApart == [][StackFrameStep]_mvars

\* the subroutine of line 100 has begun the loop of I and returned; the
\* NEXT of line 20 has stepped I and gone on with line 110, in the loop
C39_Witness ==
    /\ pc = "run" /\ Len(trace) = 5 /\ Last.kw = "NEXT"
    /\ trace[4].kw = "RETURN" /\ trace[2].kw = "FOR"
    /\ gosub_top = 0 /\ for_top = 1 /\ halted = 0
    /\ program_lines[current_line + 1].number = 110
    /\ NumberNamed("I") = 2

(* Properties of the types of assignments. *)
\* the text behind the '=' of the scalar assignment at the cursor
RightSide ==
    SubSeq(StatementText, Len(TargetName) + 2, Len(StatementText))

\* the scalar assignment at the cursor gives a string, written out, to a
\* numeric name, or a number, written out, to a '$' name
WrongTag ==
    /\ ScalarAssignment
    /\ Len(StatementText) > Len(TargetName) + 1
    /\ StatementText[Len(TargetName) + 1] = "="
    /\ IF Target.is_string = 0
       THEN /\ Len(RightSide) >= 2
            /\ RightSide[1] = "\"" /\ RightSide[Len(RightSide)] = "\""
            /\ \A k \in 2..(Len(RightSide) - 1) : RightSide[k] # "\""
       ELSE \A k \in 1..Len(RightSide) : isdigit(RightSide[k])

\* the scalar of the target among the variables vs: what a variable is
\* made with when there is none yet
TargetScalar(vs) ==
    LET hit == {i \in 1..Len(vs) :
                   /\ vs[i].name1 = Target.name1
                   /\ vs[i].name2 = TargetName2
                   /\ vs[i].is_string = Target.is_string}
    IN  IF hit = {}
        THEN (IF Target.is_string = 1 THEN make_str(<< >>) ELSE make_num(0))
        ELSE vs[CHOOSE i \in hit : TRUE].scalar

\* the assignment raises the error of its target's kind, once
RaisesTypeError ==
    Raises(IF Target.is_string = 1 THEN "String value required"
           ELSE "Numeric value required")

WrongTagStep ==
    WrongTag => (RaisesTypeError /\ TargetScalar(vars') = TargetScalar(vars))

\* C40: a LET that gives a string to a numeric name raises 'Numeric value
\* required', one that gives a number to a '$' name raises 'String value
\* required', and either leaves the value and the tag of the target as
\* they were
C40_TypeErrorKeepsTarget == [][WrongTagStep]_mvars
====
